---- MODULE Spec2Model ----
(***************************************************************************)
(* A model of the sql-parser-js pipeline: Lexer -> Parser -> AST ->        *)
(* analyzer, and of the facade functions of src/index.js.                  *)
(*                                                                         *)
(* A JavaScript string is a sequence of one-character strings.  A token    *)
(* is a record [type, value, line, column, start, end] whose value is the  *)
(* character sequence the lexer collected.  An AST node is a record with   *)
(* a "type" field; JavaScript null is NullNode for node-valued fields and  *)
(* the string null for string-valued fields.  A thrown SQLError is a       *)
(* result record with ok = FALSE and the error in field err.               *)
(***************************************************************************)
EXTENDS Integers, Sequences, FiniteSets, TLC

VARIABLES
  argType,      \* typeof of the argument the entry points are called with
  sql,          \* the input string handed to the entry points
  options,      \* the options object handed to the entry points
  lexer,        \* the fields of the Lexer instance tokenize() was called on
  tokenized,    \* outcome of new Lexer(sql, options).tokenize()
  parsed,       \* outcome of parseSQL(sql, options)
  validated,    \* outcome of validateSQL(sql, options)
  analyzed,     \* outcome of analyzeSQL(sql, options)
  extractedTables,   \* outcome of extractTables(sql)
  extractedColumns,  \* outcome of extractColumns(sql)
  retokenized,  \* outcome of a second tokenize() on the same instance
  reparsed,     \* outcome of a second parseSQL(sql, options)
  descent       \* outcome of one parser rule called at one token position

vars == <<argType, sql, options, lexer, tokenized, parsed, validated,
          analyzed, extractedTables, extractedColumns, retokenized, reparsed,
          descent>>

(***************************************************************************)
(* JavaScript values                                                       *)
(***************************************************************************)
null == "<null>"
NullNode == [type |-> "null"]
NotCalled == [called |-> FALSE]

\* const v = ...; rest
Let(v, rest(_)) == rest(v)

JSNull == [t |-> "null"]
JSString(s) == [t |-> "string", v |-> s]
JSNumber(n, frac) == [t |-> "number", v |-> n, frac |-> frac]
JSBoolean(b) == [t |-> "boolean", v |-> b]

RECURSIVE Str(_)
Str(s) == IF s = <<>> THEN "" ELSE Head(s) \o Str(Tail(s))

LowerLetters == <<"a","b","c","d","e","f","g","h","i","j","k","l","m",
                  "n","o","p","q","r","s","t","u","v","w","x","y","z">>
UpperLetters == <<"A","B","C","D","E","F","G","H","I","J","K","L","M",
                  "N","O","P","Q","R","S","T","U","V","W","X","Y","Z">>
Range(f) == {f[i] : i \in DOMAIN f}
Digits == {"0","1","2","3","4","5","6","7","8","9"}

ToUpperChar(c) ==
  IF c \in Range(LowerLetters)
  THEN UpperLetters[CHOOSE i \in DOMAIN LowerLetters : LowerLetters[i] = c]
  ELSE c
ToLowerChar(c) ==
  IF c \in Range(UpperLetters)
  THEN LowerLetters[CHOOSE i \in DOMAIN UpperLetters : UpperLetters[i] = c]
  ELSE c
ToUpperCase(s) == [i \in DOMAIN s |-> ToUpperChar(s[i])]
ToLowerCase(s) == [i \in DOMAIN s |-> ToLowerChar(s[i])]

IsSpace(c) == c \in {" ", "\t", "\n", "\r", "\f"}
IsDigit(c) == c \in Digits
IsIdentStart(c) == c \in Range(LowerLetters) \cup Range(UpperLetters) \cup {"_"}
IsIdentPart(c) == IsIdentStart(c) \/ IsDigit(c)

RECURSIVE TrimLeft(_)
TrimLeft(s) == IF s # <<>> /\ IsSpace(Head(s)) THEN TrimLeft(Tail(s)) ELSE s
RECURSIVE TrimRight(_)
TrimRight(s) ==
  IF s # <<>> /\ IsSpace(s[Len(s)]) THEN TrimRight(SubSeq(s, 1, Len(s) - 1)) ELSE s
Trim(s) == TrimRight(TrimLeft(s))

(***************************************************************************)
(* Diagnostics (SQLError)                                                  *)
(***************************************************************************)
\* new SQLError(message, code, line, column, context)
SQLError(message, code, line, column, context) ==
  [isSQLError |-> TRUE, message |-> message, code |-> code, line |-> line,
   column |-> column, context |-> context]
lexicalError(message, line, column) ==
  SQLError(message, "LEXICAL_ERROR", line, column, <<>>)
unterminatedString(line, column) ==
  SQLError("Unterminated string literal", "UNTERMINATED_STRING", line,
           column, <<>>)
unexpectedToken(expected, actual, line, column) ==
  SQLError("Expected " \o expected \o ", but got " \o actual,
           "UNEXPECTED_TOKEN", line, column, <<expected, actual>>)
unexpectedEnd(line, column) ==
  SQLError("Unexpected end of input", "UNEXPECTED_END", line, column, <<>>)
\* an exception that is not an SQLError (a TypeError)
InternalError == [isSQLError |-> FALSE, message |-> "TypeError",
                  code |-> "TypeError", line |-> 0, column |-> 0,
                  context |-> <<>>]
Throw(e) == [ok |-> FALSE, err |-> e]

(***************************************************************************)
(* Token model                                                             *)
(***************************************************************************)
KeywordNames ==
  {"CREATE","DROP","ALTER","TABLE","INDEX","VIEW","DATABASE","SCHEMA",
   "SELECT","INSERT","UPDATE","DELETE","FROM","WHERE","INTO","VALUES","SET",
   "JOIN","INNER","LEFT","RIGHT","FULL","OUTER","CROSS","ON","USING","GROUP",
   "BY","HAVING","ORDER","ASC","DESC","LIMIT","OFFSET","UNION","INTERSECT",
   "EXCEPT","ALL","ANY","DISTINCT",
   "WITH","RECURSIVE","OVER","PARTITION","WINDOW","ROWS","RANGE","UNBOUNDED",
   "PRECEDING","FOLLOWING","CURRENT","ROW",
   "ROW_NUMBER","RANK","DENSE_RANK","LEAD","LAG","FIRST_VALUE","LAST_VALUE",
   "NTH_VALUE",
   "INT","INTEGER","VARCHAR","CHAR","TEXT","DECIMAL","FLOAT","DOUBLE","DATE",
   "TIME","TIMESTAMP","INTERVAL","YEAR","MONTH","DAY","HOUR","MINUTE",
   "SECOND",
   "PRIMARY","FOREIGN","KEY","UNIQUE","NOT","CONSTRAINT","CHECK","DEFAULT",
   "AUTO_INCREMENT",
   "AND","OR","IN","EXISTS","BETWEEN","LIKE","ILIKE","IS","AS",
   "COUNT","SUM","AVG","MIN","MAX","CASE","WHEN","THEN","ELSE","END"}

\* KEYWORDS[upperValue] || TokenType.IDENTIFIER
KEYWORDS(upperValue) ==
  CASE upperValue \in KeywordNames -> upperValue
    [] upperValue = "BOOLEAN" -> "BOOLEAN_TYPE"
    [] upperValue \in {"TRUE", "FALSE"} -> "BOOLEAN"
    [] upperValue = "NULL" -> "NULL"
    [] OTHER -> "IDENTIFIER"

Token(type, value, line, column, start, end) ==
  [type |-> type, value |-> value, line |-> line, column |-> column,
   start |-> start, end |-> end]

(***************************************************************************)
(* Lexer.  The scanner state L is [position, line, column].                *)
(***************************************************************************)
NoChar == ""
DoubleQuote == "\""
\* the backtick character (it cannot be written inside a TLA+ string)
Backtick == "<backtick>"
LexerInit == [position |-> 0, line |-> 1, column |-> 1]

LexCurrent(input, L) ==
  IF L.position >= Len(input) THEN NoChar ELSE input[L.position + 1]
LexPeek(input, L) ==
  IF L.position + 1 >= Len(input) THEN NoChar ELSE input[L.position + 2]

\* an advance() that does not start a new line's column count at 1
\* (faulty variant of LexAdvance)
LexAdvanceKeepingColumn(input, L) ==
  IF L.position >= Len(input) THEN L
  ELSE IF input[L.position + 1] = "\n"
       THEN [position |-> L.position + 1, line |-> L.line + 1,
             column |-> L.column + 1]
       ELSE [position |-> L.position + 1, line |-> L.line,
             column |-> L.column + 1]

LexAdvance(input, L) ==
  IF L.position >= Len(input) THEN L
  ELSE IF input[L.position + 1] = "\n"
       THEN [position |-> L.position + 1, line |-> L.line + 1, column |-> 1]
       ELSE [position |-> L.position + 1, line |-> L.line,
             column |-> L.column + 1]

\* the state after consuming characters while pred holds
RECURSIVE skipWhitespace(_, _)
skipWhitespace(input, L) ==
  LET c == LexCurrent(input, L) IN
  IF c # NoChar /\ IsSpace(c) /\ c # "\n"
  THEN skipWhitespace(input, LexAdvance(input, L)) ELSE L

RECURSIVE ScanIdentChars(_, _)
ScanIdentChars(input, L) ==
  LET c == LexCurrent(input, L) IN
  IF c # NoChar /\ IsIdentPart(c)
  THEN ScanIdentChars(input, LexAdvance(input, L)) ELSE L

RECURSIVE ScanDigits(_, _)
ScanDigits(input, L) ==
  LET c == LexCurrent(input, L) IN
  IF c # NoChar /\ IsDigit(c)
  THEN ScanDigits(input, LexAdvance(input, L)) ELSE L

Slice(input, start, end) == SubSeq(input, start + 1, end)

readIdentifier(input, L) ==
  IF ~IsIdentStart(LexCurrent(input, L))
  THEN Throw(lexicalError("Invalid identifier start character: "
                            \o LexCurrent(input, L), L.line, L.column))
  ELSE
  LET L2 == ScanIdentChars(input, L)
      value == Slice(input, L.position, L2.position)
      upperValue == Str(ToUpperCase(value))
  IN [ok |-> TRUE, L |-> L2,
      tok |-> Token(KEYWORDS(upperValue), value, L.line, L.column,
                    L.position, L2.position)]

\* the loop of readQuotedIdentifier: returns the state and the value read
RECURSIVE ScanQuoted(_, _, _, _)
ScanQuoted(input, L, quote, value) ==
  LET c == LexCurrent(input, L) IN
  IF c = NoChar \/ c = quote THEN [L |-> L, value |-> value]
  ELSE IF c = "\\"
       THEN LET L1 == LexAdvance(input, L)
                e == LexCurrent(input, L1)
            IN IF e # NoChar
               THEN ScanQuoted(input, LexAdvance(input, L1), quote,
                               Append(value, e))
               ELSE ScanQuoted(input, L1, quote, value)
       ELSE ScanQuoted(input, LexAdvance(input, L), quote, Append(value, c))

readQuotedIdentifier(input, L, quote) ==
  LET r == ScanQuoted(input, LexAdvance(input, L), quote, <<>>) IN
  IF LexCurrent(input, r.L) = NoChar
  THEN Throw(lexicalError("Unterminated quoted identifier", L.line, L.column))
  ELSE LET L2 == LexAdvance(input, r.L)
       IN [ok |-> TRUE, L |-> L2,
           tok |-> Token("IDENTIFIER", r.value, L.line, L.column,
                         L.position, L2.position)]

Unescape(e) ==
  CASE e = "n" -> "\n"
    [] e = "t" -> "\t"
    [] e = "r" -> "\r"
    [] OTHER -> e

\* the loop of readString
RECURSIVE ScanString(_, _, _, _)
ScanString(input, L, quote, value) ==
  LET c == LexCurrent(input, L) IN
  IF c = NoChar \/ c = quote THEN [L |-> L, value |-> value]
  ELSE IF c = "\\"
       THEN LET L1 == LexAdvance(input, L)
                e == LexCurrent(input, L1)
            IN IF e # NoChar
               THEN ScanString(input, LexAdvance(input, L1), quote,
                               Append(value, Unescape(e)))
               ELSE ScanString(input, L1, quote, value)
       ELSE ScanString(input, LexAdvance(input, L), quote, Append(value, c))

\* a readString that reports the position where the input ends (faulty
\* variant of readString)
readStringReportingEnd(input, L, quote) ==
  LET r == ScanString(input, LexAdvance(input, L), quote, <<>>) IN
  IF LexCurrent(input, r.L) = NoChar
  THEN Throw(unterminatedString(r.L.line, r.L.column))
  ELSE LET L2 == LexAdvance(input, r.L)
       IN [ok |-> TRUE, L |-> L2,
           tok |-> Token("STRING", r.value, L.line, L.column,
                         L.position, L2.position)]

readString(input, L, quote) ==
  LET r == ScanString(input, LexAdvance(input, L), quote, <<>>) IN
  IF LexCurrent(input, r.L) = NoChar
  THEN Throw(unterminatedString(L.line, L.column))
  ELSE LET L2 == LexAdvance(input, r.L)
       IN [ok |-> TRUE, L |-> L2,
           tok |-> Token("STRING", r.value, L.line, L.column,
                         L.position, L2.position)]

readNumber(input, L) ==
  LET L1 == ScanDigits(input, L)
      L2 == IF LexCurrent(input, L1) = "." /\ IsDigit(LexPeek(input, L1))
            THEN ScanDigits(input, LexAdvance(input, L1))
            ELSE L1
      hasExp == LexCurrent(input, L2) \in {"e", "E"}
      L3 == IF hasExp THEN LexAdvance(input, L2) ELSE L2
      L4 == IF hasExp /\ LexCurrent(input, L3) \in {"+", "-"}
            THEN LexAdvance(input, L3) ELSE L3
      L5 == IF hasExp THEN ScanDigits(input, L4) ELSE L4
  IN IF hasExp /\ ~IsDigit(LexCurrent(input, L4))
     THEN Throw(lexicalError("Invalid number format", L.line, L.column))
     ELSE [ok |-> TRUE, L |-> L5,
           tok |-> Token("NUMBER", Slice(input, L.position, L5.position),
                         L.line, L.column, L.position, L5.position)]

RECURSIVE ScanToEndOfLine(_, _)
ScanToEndOfLine(input, L) ==
  LET c == LexCurrent(input, L) IN
  IF c # NoChar /\ c # "\n"
  THEN ScanToEndOfLine(input, LexAdvance(input, L)) ELSE L

\* a variant that reads to the end of the line only when the comment is
\* kept (faulty variant of readSingleLineComment)
readSingleLineCommentUnskipped(input, L, opts) ==
  LET L1 == IF LexCurrent(input, L) = "-"
            THEN LexAdvance(input, LexAdvance(input, L))
            ELSE LexAdvance(input, L)
      L2 == ScanToEndOfLine(input, L1)
      value == Slice(input, L1.position, L2.position)
  IN [ok |-> TRUE, L |-> IF opts.includeComments THEN L2 ELSE L1,
      tok |-> IF opts.includeComments
              THEN Token("COMMENT", Trim(value), L.line, L.column,
                         L.position, L2.position)
              ELSE NullNode]

\* tok is NullNode when comments are not included
readSingleLineComment(input, L, opts) ==
  LET L1 == IF LexCurrent(input, L) = "-"
            THEN LexAdvance(input, LexAdvance(input, L))
            ELSE LexAdvance(input, L)
      L2 == ScanToEndOfLine(input, L1)
      value == Slice(input, L1.position, L2.position)
  IN [ok |-> TRUE, L |-> L2,
      tok |-> IF opts.includeComments
              THEN Token("COMMENT", Trim(value), L.line, L.column,
                         L.position, L2.position)
              ELSE NullNode]

\* the loop of readMultiLineComment: stops after the closing */ or at the
\* end of the input; body is the position where the comment text ends
RECURSIVE ScanComment(_, _)
ScanComment(input, L) ==
  LET c == LexCurrent(input, L) IN
  IF c = NoChar THEN [L |-> L, body |-> L.position]
  ELSE IF c = "*" /\ LexPeek(input, L) = "/"
       THEN [L |-> LexAdvance(input, LexAdvance(input, L)),
             body |-> L.position]
       ELSE ScanComment(input, LexAdvance(input, L))

readMultiLineComment(input, L, opts) ==
  LET L1 == LexAdvance(input, LexAdvance(input, L))
      r == ScanComment(input, L1)
      value == Slice(input, L1.position, r.body)
  IN [ok |-> TRUE, L |-> r.L,
      tok |-> IF opts.includeComments
              THEN Token("COMMENT", Trim(value), L.line, L.column,
                         L.position, r.L.position)
              ELSE NullNode]

readOperator(input, L) ==
  LET char == LexCurrent(input, L)
      L1 == LexAdvance(input, L)
      next == LexCurrent(input, L1)
      L2 == LexAdvance(input, L1)
      one(type) == [ok |-> TRUE, L |-> L1,
                    tok |-> Token(type, <<char>>, L.line, L.column,
                                  L.position, L1.position)]
      two(type) == [ok |-> TRUE, L |-> L2,
                    tok |-> Token(type, <<char, next>>, L.line, L.column,
                                  L.position, L2.position)]
  IN CASE char = "=" -> one("EQUALS")
       [] char = "<" -> IF next = "=" THEN two("LESS_THAN_EQUALS")
                        ELSE IF next = ">" THEN two("NOT_EQUALS")
                        ELSE one("LESS_THAN")
       [] char = ">" -> IF next = "=" THEN two("GREATER_THAN_EQUALS")
                        ELSE one("GREATER_THAN")
       [] char = "!" -> IF next = "=" THEN two("NOT_EQUALS")
                        ELSE Throw(lexicalError("Unexpected character: "
                                                  \o char, L.line, L.column))
       [] char = "+" -> one("PLUS")
       [] char = "-" -> one("MINUS")
       [] char = "*" -> one("MULTIPLY")
       [] char = "/" -> one("DIVIDE")
       [] char = "%" -> one("MODULO")
       [] char = "|" -> IF next = "|" THEN two("CONCAT")
                        ELSE Throw(lexicalError("Unexpected character: "
                                                  \o char, L.line, L.column))
       [] OTHER -> Throw(lexicalError("Unknown operator: " \o char, L.line,
                                      L.column))

\* a readPunctuation() that leaves out advance() (faulty variant of
\* readPunctuation)
readPunctuationInPlace(input, L) ==
  LET char == LexCurrent(input, L)
      tok(type) == [ok |-> TRUE, L |-> L,
                    tok |-> Token(type, <<char>>, L.line, L.column,
                                  L.position, L.position)]
  IN CASE char = ";" -> tok("SEMICOLON")
       [] char = "," -> tok("COMMA")
       [] char = "." -> tok("DOT")
       [] char = "(" -> tok("LEFT_PAREN")
       [] char = ")" -> tok("RIGHT_PAREN")
       [] char = "[" -> tok("LEFT_BRACKET")
       [] char = "]" -> tok("RIGHT_BRACKET")

readPunctuation(input, L) ==
  LET char == LexCurrent(input, L)
      L1 == LexAdvance(input, L)
      tok(type) == [ok |-> TRUE, L |-> L1,
                    tok |-> Token(type, <<char>>, L.line, L.column,
                                  L.position, L1.position)]
  IN CASE char = ";" -> tok("SEMICOLON")
       [] char = "," -> tok("COMMA")
       [] char = "." -> tok("DOT")
       [] char = "(" -> tok("LEFT_PAREN")
       [] char = ")" -> tok("RIGHT_PAREN")
       [] char = "[" -> tok("LEFT_BRACKET")
       [] char = "]" -> tok("RIGHT_BRACKET")
       [] OTHER -> Throw(lexicalError("Unknown punctuation: " \o char, L.line,
                                      L.column))

OperatorChars == {"=", "<", ">", "!", "+", "-", "*", "/", "%", "|"}
PunctuationChars == {";", ",", ".", "(", ")", "[", "]"}

\* one iteration of the while loop of tokenize(): the token read (NullNode
\* when the iteration pushes nothing) and the scanner state after it
ScanToken(input, L, opts) ==
  LET char == LexCurrent(input, L) IN
  CASE IsSpace(char) /\ char # "\n" ->
         LET L1 == skipWhitespace(input, L) IN
         [ok |-> TRUE, L |-> L1,
          tok |-> IF opts.includeWhitespace
                  THEN Token("WHITESPACE",
                             Slice(input, L.position, L1.position),
                             L.line, L.column, L.position, L1.position)
                  ELSE NullNode]
    [] char = "\n" ->
         LET L1 == LexAdvance(input, L) IN
         [ok |-> TRUE, L |-> L1,
          tok |-> IF opts.includeWhitespace
                  THEN Token("NEWLINE", <<"\n">>, L.line, L.column,
                             L.position, L1.position)
                  ELSE NullNode]
    [] char = "-" /\ LexPeek(input, L) = "-" ->
         readSingleLineComment(input, L, opts)
    [] char = "#" -> readSingleLineComment(input, L, opts)
    [] char = "/" /\ LexPeek(input, L) = "*" ->
         readMultiLineComment(input, L, opts)
    [] char = "'" -> readString(input, L, char)
    [] char \in {DoubleQuote, Backtick} -> readQuotedIdentifier(input, L, char)
    [] IsDigit(char) -> readNumber(input, L)
    [] IsIdentStart(char) -> readIdentifier(input, L)
    [] char \in OperatorChars -> readOperator(input, L)
    [] char \in PunctuationChars -> readPunctuation(input, L)
    [] OTHER -> Throw(lexicalError("Unexpected character: " \o char, L.line,
                                   L.column))

\* one iteration of the while loop of tokenize(); S holds the lexer's
\* fields L, the tokens pushed so far and the error thrown, if any.  Once
\* the input is used up or an error is thrown nothing happens any more.
ScanStep(input, opts, S) ==
  IF S.err # NullNode \/ S.L.position >= Len(input) THEN S
  ELSE Let(ScanToken(input, S.L, opts), LAMBDA r :
         IF ~r.ok THEN [S EXCEPT !.err = r.err]
         ELSE [L |-> r.L,
               tokens |-> IF r.tok = NullNode THEN S.tokens
                          ELSE Append(S.tokens, r.tok),
               err |-> NullNode])

\* n iterations of the loop, the first half of them and then the rest
RECURSIVE ScanLoop(_, _, _, _)
ScanLoop(input, opts, S, n) ==
  IF S.err # NullNode \/ n = 0 THEN S
  ELSE IF n = 1 THEN ScanStep(input, opts, S)
  ELSE ScanLoop(input, opts, ScanLoop(input, opts, S, n \div 2),
                n - (n \div 2))

\* a tokenize() that forgets the final EOF token (faulty variant of
\* tokenize)
tokenizeWithoutEOF(input, opts) ==
  Let(ScanLoop(input, opts,
               [L |-> LexerInit, tokens |-> <<>>, err |-> NullNode],
               Len(input)),
      LAMBDA S : IF S.err # NullNode THEN Throw(S.err)
                 ELSE [ok |-> TRUE, tokens |-> S.tokens])

tokenize(input, opts) ==
  Let(ScanLoop(input, opts,
               [L |-> LexerInit, tokens |-> <<>>, err |-> NullNode],
               Len(input)),
      LAMBDA S :
        IF S.err # NullNode THEN Throw(S.err)
        ELSE [ok |-> TRUE,
              tokens |-> Append(S.tokens,
                                Token("EOF", <<>>, S.L.line, S.L.column,
                                      S.L.position, S.L.position))])

\* the fields of a new Lexer(input, options); err is the exception the
\* last tokenize() on the instance ended with
NewLexer == [L |-> LexerInit, tokens |-> <<>>, err |-> NullNode]

\* a tokenize() that starts from the fields the instance has (faulty
\* variant of ResetFields)
KeepFields(S) == [S EXCEPT !.err = NullNode]

\* the first statements of tokenize(): tokens, position, line and column
\* are set anew, whatever the instance did before
ResetFields(S) == [L |-> LexerInit, tokens |-> <<>>, err |-> NullNode]

\* the end of tokenize(): the EOF token is pushed unless the loop threw
PushEOF(T) ==
  IF T.err # NullNode THEN T
  ELSE [T EXCEPT !.tokens =
          Append(T.tokens, Token("EOF", <<>>, T.L.line, T.L.column,
                                 T.L.position, T.L.position))]

\* the fields of an instance with fields S after tokenize() has run on it
tokenizeFields(input, opts, S) ==
  PushEOF(ScanLoop(input, opts, ResetFields(S), Len(input)))

\* what that call returns (this.tokens) or throws
tokenizeResult(T) ==
  IF T.err # NullNode THEN Throw(T.err) ELSE [ok |-> TRUE, tokens |-> T.tokens]

(***************************************************************************)
(* AST factory (src/ast/ast-nodes.js)                                      *)
(***************************************************************************)
\* node.field = value for a property the node may or may not have yet
SetField(node, field, value) == (field :> value) @@ node

AST_select(distinct, columns, from, where, groupBy, having) ==
  [type |-> "SelectStatement", columns |-> columns, from |-> from,
   where |-> where, groupBy |-> groupBy, having |-> having,
   orderBy |-> NullNode, limit |-> NullNode, offset |-> NullNode,
   distinct |-> distinct]
AST_insert(table, columns, values) ==
  [type |-> "InsertStatement", table |-> table, columns |-> columns,
   values |-> values]
AST_update(table, set, where) ==
  [type |-> "UpdateStatement", table |-> table, set |-> set, where |-> where]
AST_delete(from, where) ==
  [type |-> "DeleteStatement", from |-> from, where |-> where]
AST_union(left, right, all, orderBy, limit) ==
  [type |-> "UnionStatement", left |-> left, right |-> right,
   unionType |-> IF all THEN "UNION ALL" ELSE "UNION", all |-> all,
   orderBy |-> orderBy, limit |-> limit, offset |-> NullNode]
AST_with(recursive, expressions) ==
  [type |-> "WithClause", recursive |-> recursive,
   expressions |-> expressions]
AST_cte(name, columns, query) ==
  [type |-> "CTEExpression", name |-> name, columns |-> columns,
   query |-> query]
AST_windowFunction(function, over) ==
  [type |-> "WindowFunction", function |-> function, over |-> over]
AST_over(partitionBy, orderBy, frame) ==
  [type |-> "OverClause", partitionBy |-> partitionBy, orderBy |-> orderBy,
   frame |-> frame]
\* the properties object carries its own "type" (ROWS or RANGE), which
\* overrides the node type
AST_windowFrame(frameType, start, end) ==
  [type |-> frameType, start |-> start, end |-> end]
AST_binary(left, operator, right) ==
  [type |-> "BinaryExpression", left |-> left, operator |-> operator,
   right |-> right]
AST_unary(operator, operand) ==
  [type |-> "UnaryExpression", operator |-> operator, operand |-> operand]
AST_function(name, args) ==
  [type |-> "FunctionCall", name |-> name, arguments |-> args]
AST_case(expression, whenClauses, elseClause) ==
  [type |-> "CaseExpression", expression |-> expression,
   whenClauses |-> whenClauses, elseClause |-> elseClause]
AST_when(condition, result) ==
  [type |-> "WhenClause", condition |-> condition, result |-> result]
AST_table(name, alias) ==
  [type |-> "TableReference", name |-> name, alias |-> alias,
   schema |-> null]
AST_column(name, table) ==
  [type |-> "ColumnReference", name |-> name, table |-> table,
   alias |-> null]
AST_wildcard == [type |-> "Wildcard", name |-> "*"]
AST_literal(value, dataType) ==
  [type |-> "Literal", value |-> value, dataType |-> dataType]
AST_from(tables, joins) ==
  [type |-> "FromClause", tables |-> tables, joins |-> joins]
AST_join(joinType, table, condition) ==
  [type |-> "JoinClause", joinType |-> joinType, table |-> table,
   condition |-> condition]
AST_groupBy(columns) == [type |-> "GroupByClause", columns |-> columns]
AST_having(condition) == [type |-> "HavingClause", condition |-> condition]
AST_orderBy(columns) == [type |-> "OrderByClause", columns |-> columns]
AST_orderByColumn(column, direction) ==
  [type |-> "OrderByColumn", column |-> column, direction |-> direction]
AST_limit(count, offset) ==
  [type |-> "LimitClause", count |-> count, offset |-> offset]
AST_assignment(column, value) ==
  [type |-> "Assignment", column |-> column, value |-> value]
AST_valuesList(values) == [type |-> "ValuesList", values |-> values]
AST_betweenRange(start, end) ==
  [type |-> "BetweenRange", start |-> start, end |-> end]
AST_interval(value, unit) ==
  [type |-> "Interval", value |-> value, unit |-> unit]
AST_subquery(query, alias) ==
  [type |-> "SubQuery", query |-> query, alias |-> alias]

(***************************************************************************)
(* Parser.  ts is this.tokens, p is this.position.  A parse method returns *)
(* [ok |-> TRUE, pos, node] or Throw(error).                               *)
(***************************************************************************)
\* this[rule](): the invocation of the parser method named rule at token
\* position p
RECURSIVE Call(_, _, _)

NullTok == NullNode
Ok(pos, node) == [ok |-> TRUE, pos |-> pos, node |-> node]
\* the statements after a call run only when the call did not throw
Bind(r, rest(_)) == IF r.ok THEN rest(r) ELSE r

\* a constructor that keeps the comment tokens (faulty variant of
\* ParserTokens)
ParserTokensKeepingComments(tokens) ==
  SelectSeq(tokens, LAMBDA t : t.type \notin {"WHITESPACE", "NEWLINE"})

ParserTokens(tokens) ==
  SelectSeq(tokens,
            LAMBDA t : t.type \notin {"WHITESPACE", "NEWLINE", "COMMENT"})

Cur(ts, p) == IF p >= Len(ts) THEN NullTok ELSE ts[p + 1]
Adv(ts, p) == IF p < Len(ts) THEN p + 1 ELSE p
Match(ts, p, tokenType) ==
  Cur(ts, p) # NullTok /\ Cur(ts, p).type = tokenType
MatchAny(ts, p, tokenTypes) ==
  Cur(ts, p) # NullTok /\ Cur(ts, p).type \in tokenTypes
\* the position after consume(tokenType)
Consume(ts, p, tokenType) == IF Match(ts, p, tokenType) THEN Adv(ts, p) ELSE p

LastLine(ts) == IF Len(ts) = 0 \/ ts[Len(ts)].line = 0 THEN 1
                ELSE ts[Len(ts)].line
LastColumn(ts) == IF Len(ts) = 0 \/ ts[Len(ts)].column = 0 THEN 1
                  ELSE ts[Len(ts)].column

\* expect(tokenType): node is the consumed token
Expect(ts, p, tokenType) ==
  LET token == Cur(ts, p) IN
  IF token = NullTok \/ token.type = "EOF"
  THEN Throw(unexpectedEnd(LastLine(ts), LastColumn(ts)))
  ELSE IF token.type # tokenType
       THEN Throw(unexpectedToken(tokenType, token.type, token.line,
                                  token.column))
       ELSE Ok(Adv(ts, p), token)

AliasKeywords ==
  {"DATE", "TIME", "TIMESTAMP", "YEAR", "MONTH", "DAY", "HOUR", "MINUTE",
   "SECOND", "COUNT", "SUM", "AVG", "MIN", "MAX", "ROW_NUMBER", "RANK",
   "DENSE_RANK", "LEAD", "LAG", "FIRST_VALUE", "LAST_VALUE", "NTH_VALUE"}
canBeAlias(token) == token.type = "IDENTIFIER" \/ token.type \in AliasKeywords

FunctionKeywords ==
  {"DATE", "TIME", "TIMESTAMP", "COUNT", "SUM", "AVG", "MIN", "MAX", "YEAR",
   "MONTH", "DAY", "ROW_NUMBER", "RANK", "DENSE_RANK", "LEAD", "LAG",
   "FIRST_VALUE", "LAST_VALUE", "NTH_VALUE"}
isFunctionKeyword(token) == token.type \in FunctionKeywords

DateUnits == {"YEAR", "MONTH", "DAY", "HOUR", "MINUTE", "SECOND"}

DigitSeq == <<"0","1","2","3","4","5","6","7","8","9">>
DigitValue(c) == (CHOOSE i \in DOMAIN DigitSeq : DigitSeq[i] = c) - 1
\* parseInt(value, 10) of a string that starts with a digit: the value of
\* its leading digits
RECURSIVE ParseIntFrom(_, _)
ParseIntFrom(value, acc) ==
  IF value # <<>> /\ IsDigit(Head(value))
  THEN ParseIntFrom(Tail(value), 10 * acc + DigitValue(Head(value)))
  ELSE acc
RECURSIVE AfterDigits(_)
AfterDigits(value) ==
  IF value # <<>> /\ IsDigit(Head(value)) THEN AfterDigits(Tail(value))
  ELSE value
\* token.value.includes(".") ? parseFloat(value) : parseInt(value, 10);
\* a float is kept as its integer part and the text that follows it
NumberValue(value) ==
  IF "." \in Range(value)
  THEN JSNumber(ParseIntFrom(value, 0), Str(AfterDigits(value)))
  ELSE JSNumber(ParseIntFrom(value, 0), "")

RECURSIVE parseSelectColumns(_, _, _)
RECURSIVE FromTablesLoop(_, _, _, _)
RECURSIVE JoinsLoop(_, _, _)
RECURSIVE OrderItemsLoop(_, _, _)
RECURSIVE ExpressionList(_, _, _)
RECURSIVE OrLoop(_, _, _)
RECURSIVE AndLoop(_, _, _)
RECURSIVE EqualityLoop(_, _, _)
RECURSIVE RelationalLoop(_, _, _)
RECURSIVE InValuesLoop(_, _, _)
RECURSIVE AdditiveLoop(_, _, _)
RECURSIVE MultiplicativeLoop(_, _, _)
RECURSIVE FunctionArgsLoop(_, _, _)
RECURSIVE WhenLoop(_, _, _)

\* optional ORDER BY then optional LIMIT: node is <<orderBy, limit>>
OrderAndLimit(ts, p) ==
  Bind(IF Match(ts, p, "ORDER") THEN Call("parseOrderByClause", ts, p)
           ELSE Ok(p, NullNode), LAMBDA o :
  Bind(IF Match(ts, o.pos, "LIMIT")
                   THEN Call("parseLimitClause", ts, o.pos)
                   ELSE Ok(o.pos, NullNode), LAMBDA l :
  Ok(l.pos, <<o.node, l.node>>)))

parseUnionStatement(ts, p) ==
  Bind(Call("parseSelectStatement", ts, p), LAMBDA left :
  IF Match(ts, left.pos, "UNION")
  THEN LET p1 == Adv(ts, left.pos)
           all == Match(ts, p1, "ALL")
  IN Bind(Call("parseUnionStatementWithoutOrderLimit", 
                      ts, Consume(ts, p1, "ALL")), LAMBDA right :
  Bind(OrderAndLimit(ts, right.pos), LAMBDA ol :
  Ok(ol.pos, AST_union(left.node, right.node, all,
                                         ol.node[1], ol.node[2]))))
  ELSE Bind(OrderAndLimit(ts, left.pos), LAMBDA ol :
  IF ol.node[1] # NullNode \/ ol.node[2] # NullNode
            THEN Ok(ol.pos, [left.node EXCEPT !.orderBy = ol.node[1],
                                              !.limit = ol.node[2]])
            ELSE Ok(ol.pos, left.node)))

\* a right operand parsed with its own ORDER BY and LIMIT (faulty variant
\* of parseUnionStatementWithoutOrderLimit)
parseUnionStatementKeepingOrderLimit(ts, p) ==
  Call("parseUnionStatement", ts, p)

parseUnionStatementWithoutOrderLimit(ts, p) ==
  Bind(Call("parseSelectStatementWithoutOrderLimit", ts, p), LAMBDA left :
  IF Match(ts, left.pos, "UNION")
  THEN LET p1 == Adv(ts, left.pos)
           all == Match(ts, p1, "ALL")
  IN Bind(Call("parseUnionStatementWithoutOrderLimit", 
                      ts, Consume(ts, p1, "ALL")), LAMBDA right :
  Ok(right.pos, AST_union(left.node, right.node, all,
                                       NullNode, NullNode)))
  ELSE left)

\* the body shared by parseSelectStatement and
\* parseSelectStatementWithoutOrderLimit
SelectBody(ts, p) ==
  Bind(Expect(ts, p, "SELECT"), LAMBDA s :
  LET distinct == Match(ts, s.pos, "DISTINCT")
  IN Bind(parseSelectColumns(ts, Consume(ts, s.pos, "DISTINCT"), <<>>), LAMBDA c :
  Bind(IF Match(ts, c.pos, "FROM") THEN Call("parseFromClause", ts, c.pos)
           ELSE Ok(c.pos, NullNode), LAMBDA f :
  Bind(IF Match(ts, f.pos, "WHERE")
           THEN Call("parseWhereClause", ts, f.pos)
           ELSE Ok(f.pos, NullNode), LAMBDA w :
  Bind(IF Match(ts, w.pos, "GROUP")
           THEN Call("parseGroupByClause", ts, w.pos)
           ELSE Ok(w.pos, NullNode), LAMBDA g :
  Bind(IF Match(ts, g.pos, "HAVING")
           THEN Call("parseHavingClause", ts, g.pos)
           ELSE Ok(g.pos, NullNode), LAMBDA h :
  Ok(h.pos, AST_select(distinct, c.node, f.node, w.node, g.node, h.node))))))))

parseSelectStatementWithoutOrderLimit(ts, p) == SelectBody(ts, p)
parseSelectStatement(ts, p) == SelectBody(ts, p)

\* the do-while loop of parseSelectColumns; columns is the list so far
parseSelectColumns(ts, p, columns) ==
  Bind(IF Match(ts, p, "MULTIPLY") THEN Ok(Adv(ts, p), AST_wildcard)
        ELSE
        Bind(Call("parseExpression", ts, p), LAMBDA e :
  IF Match(ts, e.pos, "AS")
        THEN LET p1 == Adv(ts, e.pos)
                 t == Cur(ts, p1)
             IN IF t = NullTok THEN Throw(InternalError)
                ELSE IF canBeAlias(t)
                THEN Ok(Adv(ts, p1),
                        IF t.value # <<>>
                        THEN SetField(e.node, "alias", Str(t.value))
                        ELSE e.node)
                ELSE Throw(unexpectedToken("alias identifier", t.type,
                                           t.line, t.column))
        ELSE LET t == Cur(ts, e.pos) IN
             IF t = NullTok THEN Throw(InternalError)
             ELSE IF canBeAlias(t)
             THEN Ok(Adv(ts, e.pos),
                     IF t.value # <<>>
                     THEN SetField(e.node, "alias", Str(t.value))
                     ELSE e.node)
             ELSE e), LAMBDA item :
  IF Match(ts, item.pos, "COMMA")
          THEN parseSelectColumns(ts, Adv(ts, item.pos),
                                  Append(columns, item.node))
          ELSE Ok(item.pos, Append(columns, item.node)))

JoinStart == {"JOIN", "INNER", "LEFT", "RIGHT", "FULL", "CROSS"}

\* the while loop over JOINs: node is the list of joins
JoinsLoop(ts, p, joins) ==
  IF MatchAny(ts, p, JoinStart)
  THEN Bind(Call("parseJoinClause", ts, p), LAMBDA j :
JoinsLoop(ts, j.pos, Append(joins, j.node)))
  ELSE Ok(p, joins)

\* the do-while loop of parseFromClause
FromTablesLoop(ts, p, tables, joins) ==
  Bind(Call("parseTableReference", ts, p), LAMBDA t :
  Bind(JoinsLoop(ts, t.pos, joins), LAMBDA j :
  IF Match(ts, j.pos, "COMMA")
       THEN FromTablesLoop(ts, Adv(ts, j.pos), Append(tables, t.node), j.node)
       ELSE Ok(j.pos, AST_from(Append(tables, t.node), j.node))))

parseFromClause(ts, p) ==
  Bind(Expect(ts, p, "FROM"), LAMBDA f :
FromTablesLoop(ts, f.pos, <<>>, <<>>))

\* [AS alias | alias] after a table name or a subquery: node is the alias
TableAlias(ts, p) ==
  IF Match(ts, p, "AS")
  THEN Bind(Expect(ts, Adv(ts, p), "IDENTIFIER"), LAMBDA a :
  Ok(a.pos, Str(a.node.value)))
  ELSE IF Match(ts, p, "IDENTIFIER") /\ canBeAlias(Cur(ts, p))
       THEN Ok(Adv(ts, p), Str(Cur(ts, p).value))
       ELSE Ok(p, null)

\* "Regular table reference", entered at position p
RegularTableReference(ts, p) ==
  Bind(Expect(ts, p, "IDENTIFIER"), LAMBDA n :
  Bind(TableAlias(ts, n.pos), LAMBDA a :
  Ok(a.pos, AST_table(Str(n.node.value), a.node))))

\* parseTableReference without "this.position--"
parseTableReferenceNoRewind(ts, p) ==
  IF Match(ts, p, "LEFT_PAREN")
  THEN LET p1 == Adv(ts, p) IN
       IF Match(ts, p1, "SELECT")
       THEN Bind(Call("parseSelectStatement", ts, p1), LAMBDA q :
  Bind(Expect(ts, q.pos, "RIGHT_PAREN"), LAMBDA r :
  Bind(TableAlias(ts, r.pos), LAMBDA a :
  Ok(a.pos, AST_subquery(q.node, a.node)))))
       ELSE RegularTableReference(ts, p1)
  ELSE RegularTableReference(ts, p)

parseTableReference(ts, p) ==
  IF Match(ts, p, "LEFT_PAREN")
  THEN LET p1 == Adv(ts, p) IN
       IF Match(ts, p1, "SELECT")
       THEN Bind(Call("parseSelectStatement", ts, p1), LAMBDA q :
  Bind(Expect(ts, q.pos, "RIGHT_PAREN"), LAMBDA r :
  Bind(TableAlias(ts, r.pos), LAMBDA a :
  Ok(a.pos, AST_subquery(q.node, a.node)))))
       ELSE RegularTableReference(ts, p1 - 1)
  ELSE RegularTableReference(ts, p)

parseJoinClause(ts, p) ==
  LET outer(q, plain, withOuter) ==
        IF Match(ts, q, "OUTER") THEN <<Adv(ts, q), withOuter>>
        ELSE <<q, plain>>
      k == CASE Match(ts, p, "LEFT") -> outer(Adv(ts, p), "LEFT", "LEFT OUTER")
             [] Match(ts, p, "RIGHT") ->
                  outer(Adv(ts, p), "RIGHT", "RIGHT OUTER")
             [] Match(ts, p, "FULL") -> outer(Adv(ts, p), "FULL", "FULL OUTER")
             [] Match(ts, p, "CROSS") -> <<Adv(ts, p), "CROSS">>
             [] Match(ts, p, "INNER") -> <<Adv(ts, p), "INNER">>
             [] OTHER -> <<p, "INNER">>
      joinType == k[2]
  IN Bind(Expect(ts, k[1], "JOIN"), LAMBDA j :
  Bind(Call("parseTableReference", ts, j.pos), LAMBDA t :
  IF joinType # "CROSS"
     THEN Bind(Expect(ts, t.pos, "ON"), LAMBDA o :
  Bind(Call("parseExpression", ts, o.pos), LAMBDA c :
  Ok(c.pos, AST_join(joinType, t.node, c.node))))
     ELSE Ok(t.pos, AST_join(joinType, t.node, NullNode))))

parseWhereClause(ts, p) ==
  Bind(Expect(ts, p, "WHERE"), LAMBDA w :
Call("parseExpression", ts, w.pos))

\* do { list.push(parseExpression()) } while (consume(COMMA))
ExpressionList(ts, p, list) ==
  Bind(Call("parseExpression", ts, p), LAMBDA e :
  IF Match(ts, e.pos, "COMMA")
       THEN ExpressionList(ts, Adv(ts, e.pos), Append(list, e.node))
       ELSE Ok(e.pos, Append(list, e.node)))

parseGroupByClause(ts, p) ==
  Bind(Expect(ts, p, "GROUP"), LAMBDA g :
  Bind(Expect(ts, g.pos, "BY"), LAMBDA b :
  Bind(ExpressionList(ts, b.pos, <<>>), LAMBDA c :
  Ok(c.pos, AST_groupBy(c.node)))))

parseHavingClause(ts, p) ==
  Bind(Expect(ts, p, "HAVING"), LAMBDA h :
  Bind(Call("parseExpression", ts, h.pos), LAMBDA c :
  Ok(c.pos, AST_having(c.node))))

\* do { column [ASC|DESC] } while (consume(COMMA))
OrderItemsLoop(ts, p, columns) ==
  Bind(Call("parseExpression", ts, p), LAMBDA c :
  LET hasDir == MatchAny(ts, c.pos, {"ASC", "DESC"})
      direction == IF hasDir THEN Str(ToUpperCase(Cur(ts, c.pos).value))
                   ELSE "ASC"
      p1 == IF hasDir THEN Adv(ts, c.pos) ELSE c.pos
      item == AST_orderByColumn(c.node, direction)
  IN IF Match(ts, p1, "COMMA")
     THEN OrderItemsLoop(ts, Adv(ts, p1), Append(columns, item))
     ELSE Ok(p1, Append(columns, item)))

parseOrderByClause(ts, p) ==
  Bind(Expect(ts, p, "ORDER"), LAMBDA o :
  Bind(Expect(ts, o.pos, "BY"), LAMBDA b :
  Bind(OrderItemsLoop(ts, b.pos, <<>>), LAMBDA c :
  Ok(c.pos, AST_orderBy(c.node)))))

parseLimitClause(ts, p) ==
  Bind(Expect(ts, p, "LIMIT"), LAMBDA l :
  Bind(Call("parseExpression", ts, l.pos), LAMBDA c :
  IF Match(ts, c.pos, "OFFSET")
       THEN Bind(Call("parseExpression", ts, Adv(ts, c.pos)), LAMBDA o :
  Ok(o.pos, AST_limit(c.node, o.node)))
       ELSE Ok(c.pos, AST_limit(c.node, NullNode))))

parseExpression(ts, p) == Call("parseOrExpression", ts, p)

OrLoop(ts, p, left) ==
  IF Match(ts, p, "OR")
  THEN LET operator == Str(Cur(ts, p).value)
  IN Bind(Call("parseAndExpression", ts, Adv(ts, p)), LAMBDA right :
OrLoop(ts, right.pos, AST_binary(left, operator, right.node)))
  ELSE Ok(p, left)

parseOrExpression(ts, p) ==
  Bind(Call("parseAndExpression", ts, p), LAMBDA left :
OrLoop(ts, left.pos, left.node))

AndLoop(ts, p, left) ==
  IF Match(ts, p, "AND")
  THEN LET operator == Str(Cur(ts, p).value)
  IN Bind(Call("parseEqualityExpression", ts, Adv(ts, p)), LAMBDA right :
AndLoop(ts, right.pos, AST_binary(left, operator, right.node)))
  ELSE Ok(p, left)

parseAndExpression(ts, p) ==
  Bind(Call("parseEqualityExpression", ts, p), LAMBDA left :
AndLoop(ts, left.pos, left.node))

EqualityLoop(ts, p, left) ==
  IF MatchAny(ts, p, {"EQUALS", "NOT_EQUALS"})
  THEN LET operator == Str(Cur(ts, p).value)
  IN Bind(Call("parseRelationalExpression", ts, Adv(ts, p)), LAMBDA right :
EqualityLoop(ts, right.pos,
                            AST_binary(left, operator, right.node)))
  ELSE Ok(p, left)

parseEqualityExpression(ts, p) ==
  Bind(Call("parseRelationalExpression", ts, p), LAMBDA left :
EqualityLoop(ts, left.pos, left.node))

\* while (match(COMMA)) { advance(); values.push(parseExpression()) }
InValuesLoop(ts, p, values) ==
  IF Match(ts, p, "COMMA")
  THEN Bind(Call("parseExpression", ts, Adv(ts, p)), LAMBDA e :
InValuesLoop(ts, e.pos, Append(values, e.node)))
  ELSE Ok(p, values)

RelationalOperators ==
  {"LESS_THAN", "GREATER_THAN", "LESS_THAN_EQUALS", "GREATER_THAN_EQUALS",
   "LIKE", "ILIKE", "IN", "BETWEEN", "IS"}

\* new SQLError(message, line, column): the line lands in the code
\* parameter and the column in the line parameter; column keeps its default.
\* The numeric code is kept as its decimal string.
SQLErrorWithoutCode(message, line, column) ==
  SQLError(message, ToString(line), column, 0, <<>>)

\* the position given to the errors after IS and after ANY/ALL:
\* this.current()?.line || 1, this.current()?.column || 1
LineOrOne(ts, p) ==
  IF Cur(ts, p) = NullTok \/ Cur(ts, p).line = 0 THEN 1 ELSE Cur(ts, p).line
ColumnOrOne(ts, p) ==
  IF Cur(ts, p) = NullTok \/ Cur(ts, p).column = 0 THEN 1
  ELSE Cur(ts, p).column

\* one iteration of the while loop of parseRelationalExpression, entered
\* with the operator token at position p
RelationalStep(ts, p, left) ==
  LET operator == Str(Cur(ts, p).value)
      p1 == Adv(ts, p)
  IN
  IF operator = "IN"
  THEN Bind(Expect(ts, p1, "LEFT_PAREN"), LAMBDA l :
  IF Match(ts, l.pos, "SELECT")
       THEN Bind(Call("parseSelectStatement", ts, l.pos), LAMBDA q :
  Bind(Expect(ts, q.pos, "RIGHT_PAREN"), LAMBDA r :
  Ok(r.pos, AST_binary(left, operator,
                                      AST_subquery(q.node, null)))))
       ELSE Bind(IF ~Match(ts, l.pos, "RIGHT_PAREN")
                     THEN Bind(Call("parseExpression", ts, l.pos), LAMBDA e :
InValuesLoop(ts, e.pos, <<e.node>>))
                     ELSE Ok(l.pos, <<>>), LAMBDA v :
  Bind(Expect(ts, v.pos, "RIGHT_PAREN"), LAMBDA r :
  Ok(r.pos, AST_binary(left, operator,
                                         AST_valuesList(v.node))))))
  ELSE IF operator = "BETWEEN"
  THEN Bind(Call("parseAdditiveExpression", ts, p1), LAMBDA s :
  Bind(Expect(ts, s.pos, "AND"), LAMBDA a :
  Bind(Call("parseAdditiveExpression", ts, a.pos), LAMBDA e :
  Ok(e.pos, AST_binary(left, operator,
                                 AST_betweenRange(s.node, e.node))))))
  ELSE IF operator = "IS"
  THEN LET isNot == Match(ts, p1, "NOT")
           isOperator == IF isNot THEN "IS NOT" ELSE "IS"
           p2 == IF isNot THEN Adv(ts, p1) ELSE p1
       IN IF Match(ts, p2, "NULL")
          THEN Ok(Adv(ts, p2),
                  AST_binary(left, isOperator, AST_literal(JSNull, "NULL")))
          ELSE Throw(SQLErrorWithoutCode("Expected NULL after " \o isOperator,
                                         LineOrOne(ts, p2),
                                         ColumnOrOne(ts, p2)))
  ELSE IF MatchAny(ts, p1, {"ANY", "ALL"})
  THEN LET quantifier == Str(Cur(ts, p1).value)
  IN Bind(Expect(ts, Adv(ts, p1), "LEFT_PAREN"), LAMBDA l :
  IF Match(ts, l.pos, "SELECT")
          THEN Bind(Call("parseSelectStatement", ts, l.pos), LAMBDA q :
  Bind(Expect(ts, q.pos, "RIGHT_PAREN"), LAMBDA r :
  Ok(r.pos,
                       AST_binary(left, operator \o " " \o quantifier,
                                  AST_subquery(q.node, null)))))
          ELSE Throw(SQLErrorWithoutCode("Expected SELECT after "
                                           \o quantifier,
                                         LineOrOne(ts, l.pos),
                                         ColumnOrOne(ts, l.pos))))
  ELSE Bind(Call("parseAdditiveExpression", ts, p1), LAMBDA right :
  Ok(right.pos, AST_binary(left, operator, right.node)))

RelationalLoop(ts, p, left) ==
  IF MatchAny(ts, p, RelationalOperators)
  THEN Bind(RelationalStep(ts, p, left), LAMBDA r :
RelationalLoop(ts, r.pos, r.node))
  ELSE Ok(p, left)

parseRelationalExpression(ts, p) ==
  Bind(Call("parseAdditiveExpression", ts, p), LAMBDA left :
RelationalLoop(ts, left.pos, left.node))

AdditiveLoop(ts, p, left) ==
  IF MatchAny(ts, p, {"PLUS", "MINUS"})
  THEN LET operator == Str(Cur(ts, p).value)
  IN Bind(Call("parseMultiplicativeExpression", ts, Adv(ts, p)), LAMBDA right :
AdditiveLoop(ts, right.pos,
                            AST_binary(left, operator, right.node)))
  ELSE Ok(p, left)

\* a parseAdditiveExpression() that groups a chain of + and - from the
\* right (faulty variant of parseAdditiveExpression)
parseAdditiveExpressionFromRight(ts, p) ==
  Bind(Call("parseMultiplicativeExpression", ts, p), LAMBDA left :
  IF MatchAny(ts, left.pos, {"PLUS", "MINUS"})
  THEN Bind(Call("parseAdditiveExpression", ts, Adv(ts, left.pos)),
            LAMBDA right :
  Ok(right.pos, AST_binary(left.node, Str(Cur(ts, left.pos).value),
                           right.node)))
  ELSE left)

parseAdditiveExpression(ts, p) ==
  Bind(Call("parseMultiplicativeExpression", ts, p), LAMBDA left :
       AdditiveLoop(ts, left.pos, left.node))

MultiplicativeLoop(ts, p, left) ==
  IF MatchAny(ts, p, {"MULTIPLY", "DIVIDE", "MODULO", "CONCAT"})
  THEN LET operator == Str(Cur(ts, p).value)
  IN Bind(Call("parseUnaryExpression", ts, Adv(ts, p)), LAMBDA right :
MultiplicativeLoop(ts, right.pos,
                                  AST_binary(left, operator, right.node)))
  ELSE Ok(p, left)

parseMultiplicativeExpression(ts, p) ==
  Bind(Call("parseUnaryExpression", ts, p), LAMBDA left :
MultiplicativeLoop(ts, left.pos, left.node))

parseUnaryExpression(ts, p) ==
  IF MatchAny(ts, p, {"NOT", "MINUS", "PLUS"})
  THEN LET operator == Str(Cur(ts, p).value)
  IN Bind(Call("parseUnaryExpression", ts, Adv(ts, p)), LAMBDA operand :
  Ok(operand.pos, AST_unary(operator, operand.node)))
  ELSE IF Match(ts, p, "EXISTS")
  THEN Bind(Expect(ts, Adv(ts, p), "LEFT_PAREN"), LAMBDA l :
  Bind(Call("parseSelectStatement", ts, l.pos), LAMBDA q :
  Bind(Expect(ts, q.pos, "RIGHT_PAREN"), LAMBDA r :
  Ok(r.pos, AST_unary("EXISTS", q.node)))))
  ELSE Call("parsePrimaryExpression", ts, p)

\* do { args.push(* or expression) } while (consume(COMMA))
FunctionArgsLoop(ts, p, args) ==
  Bind(IF Match(ts, p, "MULTIPLY")
           THEN Ok(Adv(ts, p), AST_literal(JSString("*"), "STAR"))
           ELSE Call("parseExpression", ts, p), LAMBDA a :
  IF Match(ts, a.pos, "COMMA")
          THEN FunctionArgsLoop(ts, Adv(ts, a.pos), Append(args, a.node))
          ELSE Ok(a.pos, Append(args, a.node)))

\* EXTRACT(field FROM source), entered after the opening parenthesis
ExtractCall(ts, p, name) ==
  LET fieldToken == Cur(ts, p) IN
  IF fieldToken = NullTok THEN Throw(InternalError)
  ELSE IF fieldToken.type \notin ({"IDENTIFIER"} \cup DateUnits)
  THEN Throw(unexpectedToken("date/time field", fieldToken.type,
                             fieldToken.line, fieldToken.column))
  ELSE Bind(Expect(ts, Adv(ts, p), "FROM"), LAMBDA f :
  Bind(Call("parseExpression", ts, f.pos), LAMBDA source :
  Bind(Expect(ts, source.pos, "RIGHT_PAREN"), LAMBDA r :
  Ok(r.pos,
               SetField(AST_function(name,
                          <<AST_literal(JSString(Str(fieldToken.value)),
                                        "string"),
                            source.node>>),
                        "isExtract", TRUE)))))

\* a function call, entered after the opening parenthesis
FunctionCall(ts, p, token) ==
  LET name == Str(token.value) IN
  IF Str(ToUpperCase(token.value)) = "EXTRACT" THEN ExtractCall(ts, p, name)
  ELSE
  LET distinct == ~Match(ts, p, "RIGHT_PAREN") /\ Match(ts, p, "DISTINCT")
  IN Bind(IF ~Match(ts, p, "RIGHT_PAREN")
              THEN FunctionArgsLoop(ts, Consume(ts, p, "DISTINCT"), <<>>)
              ELSE Ok(p, <<>>), LAMBDA args :
  Bind(Expect(ts, args.pos, "RIGHT_PAREN"), LAMBDA r :
  LET func == IF distinct
              THEN SetField(AST_function(name, args.node), "distinct", TRUE)
              ELSE AST_function(name, args.node)
  IN IF Match(ts, r.pos, "OVER")
     THEN Bind(Call("parseOverClause", ts, Adv(ts, r.pos)), LAMBDA o :
  Ok(o.pos, AST_windowFunction(func, o.node)))
     ELSE Ok(r.pos, func)))

parsePrimaryExpression(ts, p) ==
  LET token == Cur(ts, p) IN
  IF token = NullTok
  THEN Throw(unexpectedEnd(LastLine(ts), LastColumn(ts)))
  ELSE IF token.type = "LEFT_PAREN"
  THEN LET p1 == Adv(ts, p) IN
       IF Match(ts, p1, "SELECT")
       THEN Bind(Call("parseSelectStatement", ts, p1), LAMBDA q :
  Bind(Expect(ts, q.pos, "RIGHT_PAREN"), LAMBDA r :
  Ok(r.pos, AST_subquery(q.node, null))))
       ELSE Bind(Call("parseExpression", ts, p1), LAMBDA e :
  Bind(Expect(ts, e.pos, "RIGHT_PAREN"), LAMBDA r :
  Ok(r.pos, e.node)))
  ELSE IF token.type = "INTERVAL"
  THEN Bind(Call("parseExpression", ts, Adv(ts, p)), LAMBDA v :
  IF MatchAny(ts, v.pos, DateUnits)
       THEN Ok(Adv(ts, v.pos),
               AST_interval(v.node, Str(ToUpperCase(Cur(ts, v.pos).value))))
       ELSE IF Match(ts, v.pos, "IDENTIFIER")
               /\ Str(ToUpperCase(Cur(ts, v.pos).value)) \in DateUnits
       THEN Ok(Adv(ts, v.pos),
               AST_interval(v.node, Str(ToUpperCase(Cur(ts, v.pos).value))))
       ELSE Ok(v.pos, AST_interval(v.node, "DAY")))
  ELSE IF token.type = "STRING"
  THEN Ok(Adv(ts, p), AST_literal(JSString(Str(token.value)), "string"))
  ELSE IF token.type = "NUMBER"
  THEN Ok(Adv(ts, p), AST_literal(NumberValue(token.value), "number"))
  ELSE IF token.type = "BOOLEAN"
  THEN Ok(Adv(ts, p),
          AST_literal(JSBoolean(Str(ToLowerCase(token.value)) = "true"),
                      "boolean"))
  ELSE IF token.type = "NULL"
  THEN Ok(Adv(ts, p), AST_literal(JSNull, "null"))
  ELSE IF token.type = "CASE" THEN Call("parseCaseExpression", ts, p)
  ELSE IF token.type = "IDENTIFIER" \/ isFunctionKeyword(token)
  THEN LET p1 == Adv(ts, p) IN
       IF Match(ts, p1, "LEFT_PAREN")
       THEN FunctionCall(ts, Adv(ts, p1), token)
       ELSE IF Match(ts, p1, "DOT")
       THEN Bind(Expect(ts, Adv(ts, p1), "IDENTIFIER"), LAMBDA c :
  Ok(c.pos, AST_column(Str(c.node.value), Str(token.value))))
       ELSE Ok(p1, AST_column(Str(token.value), null))
  ELSE Throw(unexpectedToken("expression", token.type, token.line,
                             token.column))

\* while (match(WHEN)) { advance(); condition; expect(THEN); result }
WhenLoop(ts, p, whenClauses) ==
  IF Match(ts, p, "WHEN")
  THEN Bind(Call("parseExpression", ts, Adv(ts, p)), LAMBDA c :
  Bind(Expect(ts, c.pos, "THEN"), LAMBDA t :
  Bind(Call("parseExpression", ts, t.pos), LAMBDA r :
WhenLoop(ts, r.pos, Append(whenClauses, AST_when(c.node, r.node))))))
  ELSE Ok(p, whenClauses)

parseCaseExpression(ts, p) ==
  Bind(Expect(ts, p, "CASE"), LAMBDA c :
  Bind(IF ~Match(ts, c.pos, "WHEN") THEN Call("parseExpression", ts, c.pos)
           ELSE Ok(c.pos, NullNode), LAMBDA x :
  Bind(WhenLoop(ts, x.pos, <<>>), LAMBDA w :
  Bind(IF Match(ts, w.pos, "ELSE")
           THEN Call("parseExpression", ts, Adv(ts, w.pos))
           ELSE Ok(w.pos, NullNode), LAMBDA e :
  Bind(Expect(ts, e.pos, "END"), LAMBDA n :
  Ok(n.pos, AST_case(x.node, w.node, e.node)))))))

\* let partitionBy = null, orderBy = null: the null value of a property
\* that holds an array of nodes (an array that is set has an element)
NullNodes == <<NullNode>>

parseOverClause(ts, p) ==
  Bind(Expect(ts, p, "LEFT_PAREN"), LAMBDA l :
  Bind(IF Match(ts, l.pos, "PARTITION")
            THEN Bind(Expect(ts, Adv(ts, l.pos), "BY"), LAMBDA b :
ExpressionList(ts, b.pos, <<>>))
            ELSE Ok(l.pos, NullNodes), LAMBDA pb :
  Bind(IF Match(ts, pb.pos, "ORDER")
            THEN Bind(Expect(ts, Adv(ts, pb.pos), "BY"), LAMBDA b :
OrderItemsLoop(ts, b.pos, <<>>))
            ELSE Ok(pb.pos, NullNodes), LAMBDA ob :
  Bind(IF MatchAny(ts, ob.pos, {"ROWS", "RANGE"})
            THEN Call("parseWindowFrame", ts, ob.pos)
            ELSE Ok(ob.pos, NullNode), LAMBDA fr :
  Bind(Expect(ts, fr.pos, "RIGHT_PAREN"), LAMBDA r :
  Ok(r.pos, AST_over(pb.node, ob.node, fr.node)))))))

parseWindowFrame(ts, p) ==
  LET frameType == Str(ToUpperCase(Cur(ts, p).value))
      p1 == Adv(ts, p)
  IN IF Match(ts, p1, "BETWEEN")
     THEN Bind(Call("parseFrameBound", ts, Adv(ts, p1)), LAMBDA s :
  Bind(Expect(ts, s.pos, "AND"), LAMBDA a :
  Bind(Call("parseFrameBound", ts, a.pos), LAMBDA e :
  Ok(e.pos, AST_windowFrame(frameType, s.node, e.node)))))
     ELSE Bind(Call("parseFrameBound", ts, p1), LAMBDA s :
  Ok(s.pos, AST_windowFrame(frameType, s.node, NullNode)))

\* matchAny(PRECEDING, FOLLOWING) ? current().value.toUpperCase()
\*                                : 'PRECEDING'
FrameDirection(ts, p) ==
  IF MatchAny(ts, p, {"PRECEDING", "FOLLOWING"})
  THEN Str(ToUpperCase(Cur(ts, p).value)) ELSE "PRECEDING"

parseFrameBound(ts, p) ==
  IF Match(ts, p, "UNBOUNDED")
  THEN LET p1 == Adv(ts, p) IN
       Ok(Adv(ts, p1),
          [type |-> "UNBOUNDED", direction |-> FrameDirection(ts, p1)])
  ELSE IF Match(ts, p, "CURRENT")
  THEN Bind(Expect(ts, Adv(ts, p), "ROW"), LAMBDA r :
  Ok(r.pos, [type |-> "CURRENT_ROW"]))
  ELSE IF Match(ts, p, "INTERVAL")
  THEN Bind(Call("parseExpression", ts, Adv(ts, p)), LAMBDA v :
  LET unit == IF MatchAny(ts, v.pos, DateUnits)
                   THEN Str(ToUpperCase(Cur(ts, v.pos).value)) ELSE "DAY"
           p1 == Adv(ts, v.pos)
       IN Ok(Adv(ts, p1),
             [type |-> "INTERVAL", value |-> v.node, unit |-> unit,
              direction |-> FrameDirection(ts, p1)]))
  ELSE Bind(Call("parseExpression", ts, p), LAMBDA v :
  Ok(Adv(ts, v.pos),
               [type |-> "OFFSET", value |-> v.node,
                direction |-> FrameDirection(ts, v.pos)]))

\* let columns = null: the null value of a property that holds an array of
\* identifier strings
NullList == <<null>>

\* do { names.push(expect(IDENTIFIER).value) } while (consume(COMMA))
RECURSIVE IdentifierList(_, _, _)
IdentifierList(ts, p, names) ==
  Bind(Expect(ts, p, "IDENTIFIER"), LAMBDA n :
  IF Match(ts, n.pos, "COMMA")
       THEN IdentifierList(ts, Adv(ts, n.pos),
                           Append(names, Str(n.node.value)))
       ELSE Ok(n.pos, Append(names, Str(n.node.value))))

\* the do-while loop over the CTE expressions of parseWithStatement
RECURSIVE CTELoop(_, _, _)
CTELoop(ts, p, expressions) ==
  Bind(Expect(ts, p, "IDENTIFIER"), LAMBDA n :
  Bind(IF Match(ts, n.pos, "LEFT_PAREN")
              THEN Bind(IdentifierList(ts, Adv(ts, n.pos), <<>>), LAMBDA l :
  Bind(Expect(ts, l.pos, "RIGHT_PAREN"), LAMBDA r :
  Ok(r.pos, l.node)))
              ELSE Ok(n.pos, NullList), LAMBDA cols :
  Bind(Expect(ts, cols.pos, "AS"), LAMBDA a :
  Bind(Expect(ts, a.pos, "LEFT_PAREN"), LAMBDA l :
  Bind(Call("parseUnionStatement", ts, l.pos), LAMBDA q :
  Bind(Expect(ts, q.pos, "RIGHT_PAREN"), LAMBDA r :
  LET cte == AST_cte(Str(n.node.value), cols.node, q.node) IN
  IF Match(ts, r.pos, "COMMA")
  THEN CTELoop(ts, Adv(ts, r.pos), Append(expressions, cte))
  ELSE Ok(r.pos, Append(expressions, cte))))))))

parseWithStatement(ts, p) ==
  Bind(Expect(ts, p, "WITH"), LAMBDA w :
  LET recursive == Match(ts, w.pos, "RECURSIVE")
  IN Bind(CTELoop(ts, Consume(ts, w.pos, "RECURSIVE"), <<>>), LAMBDA e :
  Bind(Call("parseUnionStatement", ts, e.pos), LAMBDA m :
  Ok(m.pos, SetField(m.node, "with", AST_with(recursive, e.node))))))

\* the do-while loop over the value rows of parseInsertStatement
RECURSIVE ValueRowsLoop(_, _, _)
ValueRowsLoop(ts, p, values) ==
  Bind(Expect(ts, p, "LEFT_PAREN"), LAMBDA l :
  Bind(ExpressionList(ts, l.pos, <<>>), LAMBDA v :
  Bind(Expect(ts, v.pos, "RIGHT_PAREN"), LAMBDA r :
  IF Match(ts, r.pos, "COMMA")
       THEN ValueRowsLoop(ts, Adv(ts, r.pos),
                          Append(values, AST_valuesList(v.node)))
       ELSE Ok(r.pos, Append(values, AST_valuesList(v.node))))))

parseInsertStatement(ts, p) ==
  Bind(Expect(ts, p, "INSERT"), LAMBDA i :
  Bind(Expect(ts, i.pos, "INTO"), LAMBDA n :
  Bind(Call("parseTableReference", ts, n.pos), LAMBDA t :
  Bind(IF Match(ts, t.pos, "LEFT_PAREN")
              THEN Bind(IdentifierList(ts, Adv(ts, t.pos), <<>>), LAMBDA l :
  Bind(Expect(ts, l.pos, "RIGHT_PAREN"), LAMBDA r :
  Ok(r.pos, l.node)))
              ELSE Ok(t.pos, <<>>), LAMBDA cols :
  Bind(Expect(ts, cols.pos, "VALUES"), LAMBDA v :
  Bind(ValueRowsLoop(ts, v.pos, <<>>), LAMBDA rows :
  Ok(rows.pos, AST_insert(t.node, cols.node, rows.node))))))))

\* the do-while loop over the assignments of parseUpdateStatement
RECURSIVE AssignmentsLoop(_, _, _)
AssignmentsLoop(ts, p, assignments) ==
  Bind(Expect(ts, p, "IDENTIFIER"), LAMBDA c :
  Bind(Expect(ts, c.pos, "EQUALS"), LAMBDA e :
  Bind(Call("parseExpression", ts, e.pos), LAMBDA v :
  LET a == AST_assignment(Str(c.node.value), v.node) IN
  IF Match(ts, v.pos, "COMMA")
  THEN AssignmentsLoop(ts, Adv(ts, v.pos), Append(assignments, a))
  ELSE Ok(v.pos, Append(assignments, a)))))

parseUpdateStatement(ts, p) ==
  Bind(Expect(ts, p, "UPDATE"), LAMBDA u :
  Bind(Call("parseTableReference", ts, u.pos), LAMBDA t :
  Bind(Expect(ts, t.pos, "SET"), LAMBDA s :
  Bind(AssignmentsLoop(ts, s.pos, <<>>), LAMBDA a :
  Bind(IF Match(ts, a.pos, "WHERE")
           THEN Call("parseWhereClause", ts, a.pos)
           ELSE Ok(a.pos, NullNode), LAMBDA w :
  Ok(w.pos, AST_update(t.node, a.node, w.node)))))))

parseDeleteStatement(ts, p) ==
  Bind(Expect(ts, p, "DELETE"), LAMBDA d :
  Bind(Expect(ts, d.pos, "FROM"), LAMBDA f :
  Bind(Call("parseTableReference", ts, f.pos), LAMBDA t :
  Bind(IF Match(ts, t.pos, "WHERE")
           THEN Call("parseWhereClause", ts, t.pos)
           ELSE Ok(t.pos, NullNode), LAMBDA w :
  Ok(w.pos, AST_delete(t.node, w.node))))))

parseStatement(ts, p) ==
  LET token == Cur(ts, p) IN
  IF token = NullTok THEN Throw(unexpectedEnd(1, 1))
  ELSE CASE token.type = "WITH" -> Call("parseWithStatement", ts, p)
         [] token.type = "SELECT" -> Call("parseUnionStatement", ts, p)
         [] token.type = "INSERT" -> Call("parseInsertStatement", ts, p)
         [] token.type = "UPDATE" -> Call("parseUpdateStatement", ts, p)
         [] token.type = "DELETE" -> Call("parseDeleteStatement", ts, p)
         [] OTHER -> Throw(unexpectedToken(
                             "WITH, SELECT, INSERT, UPDATE, or DELETE",
                             token.type, token.line, token.column))

Call(rule, ts, p) ==
  CASE rule = "parseUnionStatement" -> parseUnionStatement(ts, p)
    [] rule = "parseUnionStatementWithoutOrderLimit" -> parseUnionStatementWithoutOrderLimit(ts, p)
    [] rule = "parseSelectStatementWithoutOrderLimit" -> parseSelectStatementWithoutOrderLimit(ts, p)
    [] rule = "parseSelectStatement" -> parseSelectStatement(ts, p)
    [] rule = "parseFromClause" -> parseFromClause(ts, p)
    [] rule = "parseTableReference" -> parseTableReference(ts, p)
    [] rule = "parseJoinClause" -> parseJoinClause(ts, p)
    [] rule = "parseWhereClause" -> parseWhereClause(ts, p)
    [] rule = "parseGroupByClause" -> parseGroupByClause(ts, p)
    [] rule = "parseHavingClause" -> parseHavingClause(ts, p)
    [] rule = "parseOrderByClause" -> parseOrderByClause(ts, p)
    [] rule = "parseLimitClause" -> parseLimitClause(ts, p)
    [] rule = "parseExpression" -> parseExpression(ts, p)
    [] rule = "parseOrExpression" -> parseOrExpression(ts, p)
    [] rule = "parseAndExpression" -> parseAndExpression(ts, p)
    [] rule = "parseEqualityExpression" -> parseEqualityExpression(ts, p)
    [] rule = "parseRelationalExpression" -> parseRelationalExpression(ts, p)
    [] rule = "parseAdditiveExpression" -> parseAdditiveExpression(ts, p)
    [] rule = "parseMultiplicativeExpression" -> parseMultiplicativeExpression(ts, p)
    [] rule = "parseUnaryExpression" -> parseUnaryExpression(ts, p)
    [] rule = "parsePrimaryExpression" -> parsePrimaryExpression(ts, p)
    [] rule = "parseCaseExpression" -> parseCaseExpression(ts, p)
    [] rule = "parseOverClause" -> parseOverClause(ts, p)
    [] rule = "parseWindowFrame" -> parseWindowFrame(ts, p)
    [] rule = "parseFrameBound" -> parseFrameBound(ts, p)
    [] rule = "parseWithStatement" -> parseWithStatement(ts, p)
    [] rule = "parseInsertStatement" -> parseInsertStatement(ts, p)
    [] rule = "parseUpdateStatement" -> parseUpdateStatement(ts, p)
    [] rule = "parseDeleteStatement" -> parseDeleteStatement(ts, p)
    [] rule = "parseStatement" -> parseStatement(ts, p)

\* the rule methods of the parser
Rules ==
  {"parseStatement", "parseWithStatement", "parseUnionStatement",
   "parseUnionStatementWithoutOrderLimit", "parseSelectStatement",
   "parseSelectStatementWithoutOrderLimit", "parseInsertStatement",
   "parseUpdateStatement", "parseDeleteStatement", "parseFromClause",
   "parseTableReference", "parseJoinClause", "parseWhereClause",
   "parseGroupByClause", "parseHavingClause", "parseOrderByClause",
   "parseLimitClause", "parseExpression", "parseOrExpression",
   "parseAndExpression", "parseEqualityExpression",
   "parseRelationalExpression", "parseAdditiveExpression",
   "parseMultiplicativeExpression", "parseUnaryExpression",
   "parsePrimaryExpression", "parseCaseExpression", "parseOverClause",
   "parseWindowFrame", "parseFrameBound"}

\* a parse() that ignores the strict option (faulty variant of parse)
parseLenient(tokens, opts) ==
  LET ts == ParserTokens(tokens) IN
  IF Cur(ts, 0) = NullTok \/ Cur(ts, 0).type = "EOF"
  THEN Throw(SQLError("Empty input", "EMPTY_INPUT", 1, 1, <<>>))
  ELSE Call("parseStatement", ts, 0)

\* Parser.parse() of new Parser(tokens, opts)
parse(tokens, opts) ==
  LET ts == ParserTokens(tokens) IN
  IF Cur(ts, 0) = NullTok \/ Cur(ts, 0).type = "EOF"
  THEN Throw(SQLError("Empty input", "EMPTY_INPUT", 1, 1, <<>>))
  ELSE Bind(Call("parseStatement", ts, 0), LAMBDA statement :
         LET t == Cur(ts, statement.pos) IN
         IF t # NullTok /\ t.type # "EOF" /\ opts.strict
         THEN Throw(unexpectedToken("end of statement", t.type, t.line,
                                    t.column))
         ELSE statement)

(***************************************************************************)
(* Facade (src/index.js)                                                   *)
(***************************************************************************)
\* an array-valued property that may also be null
AsArray(v) == IF v = NullNodes THEN <<>> ELSE v

\* Object.values(node) restricted to the values the traversal descends
\* into (objects and the elements of arrays), in property order
Children(node) ==
  LET t == node.type
      withClause == IF "with" \in DOMAIN node THEN <<node["with"]>> ELSE <<>>
  IN CASE t = "SelectStatement" ->
            node.columns \o <<node.from, node.where, node.groupBy,
                              node.having, node.orderBy, node.limit,
                              node.offset>> \o withClause
       [] t = "InsertStatement" -> <<node.table>> \o node.values
       [] t = "UpdateStatement" -> <<node.table>> \o node.set \o <<node.where>>
       [] t = "DeleteStatement" -> <<node.from, node.where>>
       [] t = "UnionStatement" ->
            <<node.left, node.right, node.orderBy, node.limit, node.offset>>
              \o withClause
       [] t = "WithClause" -> node.expressions
       [] t = "CTEExpression" -> <<node.query>>
       [] t = "WindowFunction" -> <<node.function, node.over>>
       [] t = "OverClause" ->
            AsArray(node.partitionBy) \o AsArray(node.orderBy)
              \o <<node.frame>>
       [] t \in {"ROWS", "RANGE"} -> <<node.start, node.end>>
       [] t \in {"OFFSET", "INTERVAL", "Interval"} -> <<node.value>>
       [] t = "BinaryExpression" -> <<node.left, node.right>>
       [] t = "UnaryExpression" -> <<node.operand>>
       [] t = "FunctionCall" -> node.arguments
       [] t = "CaseExpression" ->
            <<node.expression>> \o node.whenClauses \o <<node.elseClause>>
       [] t = "WhenClause" -> <<node.condition, node.result>>
       [] t = "FromClause" -> node.tables \o node.joins
       [] t = "JoinClause" -> <<node.table, node.condition>>
       [] t \in {"GroupByClause", "OrderByClause"} -> node.columns
       [] t = "HavingClause" -> <<node.condition>>
       [] t = "OrderByColumn" -> <<node.column>>
       [] t = "LimitClause" -> <<node.count, node.offset>>
       [] t = "Assignment" -> <<node.value>>
       [] t = "ValuesList" -> node.values
       [] t = "BetweenRange" -> <<node.start, node.end>>
       [] t = "SubQuery" -> <<node.query>>
       [] OTHER -> <<>>

\* the names pushed by traverseAST over node and then over nodes[i..]
RECURSIVE TraverseTables(_)
RECURSIVE TraverseTablesAll(_, _)
TraverseTables(node) ==
  (IF node.type = "TableReference" /\ node.name # "" THEN <<node.name>>
   ELSE <<>>) \o TraverseTablesAll(Children(node), 1)
TraverseTablesAll(nodes, i) ==
  IF i > Len(nodes) THEN <<>>
  ELSE TraverseTables(nodes[i]) \o TraverseTablesAll(nodes, i + 1)

extractTablesFromAST(ast) ==
  IF ast = NullNode THEN <<>> ELSE TraverseTables(ast)

RECURSIVE TraverseColumns(_)
RECURSIVE TraverseColumnsAll(_, _)
TraverseColumns(node) ==
  (IF node.type = "ColumnReference" /\ node.name # "" THEN <<node.name>>
   ELSE <<>>) \o TraverseColumnsAll(Children(node), 1)
TraverseColumnsAll(nodes, i) ==
  IF i > Len(nodes) THEN <<>>
  ELSE TraverseColumns(nodes[i]) \o TraverseColumnsAll(nodes, i + 1)

\* Array.from(new Set(names)): first occurrences, in insertion order
RECURSIVE SetOrder(_, _)
SetOrder(names, seen) ==
  IF names = <<>> THEN seen
  ELSE SetOrder(Tail(names),
                IF \E i \in 1..Len(seen) : seen[i] = Head(names) THEN seen
                ELSE Append(seen, Head(names)))

extractColumnsFromAST(ast) ==
  IF ast = NullNode THEN <<>> ELSE SetOrder(TraverseColumns(ast), <<>>)

\* error.toJSON()
toJSON(error) ==
  [name |-> "SQLError", message |-> error.message, code |-> error.code,
   line |-> error.line, column |-> error.column, context |-> error.context]

\* { strict: false, includeComments: false, dialect: "standard",
\*   ...options }, read by the Lexer with includeWhitespace defaulting to
\* false
DefaultOptions ==
  [strict |-> FALSE, includeComments |-> FALSE, includeWhitespace |-> FALSE]
Config(opts) ==
  [k \in DOMAIN DefaultOptions |->
     IF k \in DOMAIN opts THEN opts[k] ELSE DefaultOptions[k]]

\* a catch block that swallows the diagnostic (faulty variant of
\* ParseFailure)
ParseFailureWithoutDiagnostic(error) ==
  [success |-> FALSE, ast |-> NullNode, tables |-> <<>>, columns |-> <<>>,
   errors |-> <<>>]

\* the catch block of parseSQL
ParseFailure(error) ==
  [success |-> FALSE, ast |-> NullNode, tables |-> <<>>, columns |-> <<>>,
   errors |-> IF error.isSQLError THEN <<toJSON(error)>>
              ELSE <<[code |-> "UNEXPECTED_ERROR", message |-> error.message,
                      line |-> 0, column |-> 0]>>]

\* try { ...; const r = ...; rest } catch (error) { ... }
TryCatch(r, rest(_)) == IF r.ok THEN rest(r) ELSE ParseFailure(r.err)

parseSQL(sqlString, opts) ==
  TryCatch(tokenize(sqlString, Config(opts)), LAMBDA lexed :
  TryCatch(parse(lexed.tokens, Config(opts)), LAMBDA result :
    [success |-> TRUE, ast |-> result.node,
     tables |-> extractTablesFromAST(result.node),
     columns |-> extractColumnsFromAST(result.node),
     errors |-> <<>>]))

\* a validation that accepts every input (faulty variant of validateSQL)
validateSQLAlwaysValid(sqlString, opts) == [valid |-> TRUE, errors |-> <<>>]

validateSQL(sqlString, opts) ==
  Let(parseSQL(sqlString, opts), LAMBDA result :
    [valid |-> result.success, errors |-> result.errors])

\* Array.from(new Set(...)) over the table names of a parsed string
extractTables(sqlString) ==
  Let(parseSQL(sqlString, <<>>), LAMBDA result :
    IF ~result.success THEN <<>>
    ELSE SetOrder(TraverseTables(result.ast), <<>>))

\* extractTables(ast) with an AST object: parseSQL throws INVALID_INPUT for
\* a non-string argument and the catch block returns []
extractTablesOfObject(ast) == <<>>

(***************************************************************************)
(* Query analyzer (src/analyzer/query-analyzer.js)                         *)
(***************************************************************************)
undefined == "<undefined>"
\* node[field], undefined when the node has no such property
Prop(node, field) == IF field \in DOMAIN node THEN node[field] ELSE undefined

\* array.join(", ") of an array of strings
RECURSIVE Join(_)
Join(strings) ==
  IF strings = <<>> THEN ""
  ELSE IF Len(strings) = 1 THEN strings[1]
  ELSE strings[1] \o ", " \o Join(Tail(strings))

\* how a template literal or join() renders a value: a number is rendered
\* as its integer part followed by the text of its fraction
TemplateString(v) ==
  IF "t" \notin DOMAIN v THEN "[object Object]"
  ELSE CASE v.t = "null" -> "null"
         [] v.t = "string" -> v.v
         [] v.t = "number" -> ToString(v.v) \o v.frac
         [] v.t = "boolean" -> IF v.v THEN "true" ELSE "false"

RECURSIVE extractFieldName(_)
RECURSIVE formatFunctionCall(_)
extractFieldName(node) ==
  IF node = NullNode THEN null
  ELSE IF node.type = "FunctionCall" THEN formatFunctionCall(node)
  ELSE IF "name" \in DOMAIN node THEN node.name ELSE "unknown"

\* join() renders a null element as the empty string
formatFunctionCall(functionCall) ==
  LET names == [i \in DOMAIN functionCall.arguments |->
                  LET n == extractFieldName(functionCall.arguments[i]) IN
                  IF n = null THEN "" ELSE n]
  IN functionCall.name \o "(" \o Join(names) \o ")"

RECURSIVE extractValue(_)
RECURSIVE WhenText(_, _)
extractValue(node) ==
  IF node = NullNode THEN JSNull ELSE
  LET t == node.type
      text(n) == TemplateString(extractValue(n))
  IN CASE t = "Literal" -> node.value
       [] t = "ColumnReference" ->
            JSString(IF node.table # null
                     THEN node.table \o "." \o node.name ELSE node.name)
       [] t = "TableReference" -> JSString(node.name)
       [] t = "BinaryExpression" ->
            JSString(text(node.left) \o " " \o node.operator \o " "
                       \o text(node.right))
       [] t = "UnaryExpression" ->
            JSString(node.operator \o " " \o text(node.operand))
       [] t = "FunctionCall" ->
            JSString(node.name \o "("
                       \o Join([i \in DOMAIN node.arguments |->
                                  text(node.arguments[i])]) \o ")")
       [] t = "CaseExpression" ->
            JSString("CASE"
                       \o (IF node.expression # NullNode
                           THEN " " \o text(node.expression) ELSE "")
                       \o WhenText(node.whenClauses, 1)
                       \o (IF node.elseClause # NullNode
                           THEN " ELSE " \o text(node.elseClause) ELSE "")
                       \o " END")
       [] t = "BetweenRange" ->
            JSString("BETWEEN " \o text(node.start) \o " AND "
                       \o text(node.end))
       [] t = "ValuesList" ->
            JSString("(" \o Join([i \in DOMAIN node.values |->
                                    text(node.values[i])]) \o ")")
       [] OTHER -> IF "value" \in DOMAIN node THEN node.value
                   ELSE IF "name" \in DOMAIN node THEN JSString(node.name)
                   ELSE JSString("[" \o t \o "]")
WhenText(whenClauses, i) ==
  IF i > Len(whenClauses) THEN ""
  ELSE " WHEN " \o TemplateString(extractValue(whenClauses[i].condition))
         \o " THEN " \o TemplateString(extractValue(whenClauses[i].result))
         \o WhenText(whenClauses, i + 1)

getConditionType(operator) ==
  CASE operator \in {"=", "!=", "<>"} -> "equality"
    [] operator \in {">", "<", ">=", "<="} -> "comparison"
    [] operator \in {"LIKE", "ILIKE"} -> "pattern"
    [] operator = "IN" -> "list"
    [] operator = "BETWEEN" -> "range"
    [] OTHER -> "other"

\* the operators for which traverseCondition records a condition
ConditionOperators ==
  {"=", "!=", "<>", ">", "<", ">=", "<=", "LIKE", "ILIKE", "IN", "BETWEEN"}

RECURSIVE traverseCondition(_)
traverseCondition(node) ==
  IF node = NullNode THEN <<>>
  ELSE IF node.type = "BinaryExpression"
  THEN IF node.operator \in ConditionOperators
       THEN <<[field |-> extractFieldName(node.left),
               operator |-> node.operator,
               value |-> extractValue(node.right),
               type |-> getConditionType(node.operator)]>>
       ELSE IF node.operator \in {"AND", "OR"}
       THEN traverseCondition(node.left) \o traverseCondition(node.right)
       ELSE <<>>
  ELSE IF node.type = "UnaryExpression" /\ node.operator = "NOT"
  THEN traverseCondition(node.operand)
  ELSE <<>>

extractConditions(whereClause) ==
  IF whereClause = NullNode THEN <<>> ELSE traverseCondition(whereClause)

\* the spellings s with s.toUpperCase() = word
CaseVariants(word) ==
  {Str([i \in DOMAIN word |-> IF i \in lower THEN ToLowerChar(word[i])
                              ELSE word[i]]) : lower \in SUBSET DOMAIN word}
AggregateFunctions ==
  {<<"C","O","U","N","T">>, <<"S","U","M">>, <<"A","V","G">>,
   <<"M","A","X">>, <<"M","I","N">>,
   <<"G","R","O","U","P","_","C","O","N","C","A","T">>}
AggregateSpellings == UNION {CaseVariants(w) : w \in AggregateFunctions}

\* aggregateFunctions.includes(functionName.toUpperCase())
isAggregateFunction(functionName) == functionName \in AggregateSpellings

\* the two Chinese expression texts are written "CASE expression" and
\* "complex expression"
extractFields(selectList) ==
  [i \in DOMAIN selectList |->
     LET field == selectList[i]
         alias == Prop(field, "alias")
         hasAlias == alias \notin {undefined, null, ""}
     IN CASE field.type = "ColumnReference" ->
               [name |-> field.name, alias |-> alias, type |-> "column",
                table |-> field.table, expression |-> null,
                aggregation |-> JSNull]
          [] field.type = "FunctionCall" ->
               [name |-> field.name, alias |-> alias, type |-> "function",
                table |-> null, expression |-> formatFunctionCall(field),
                aggregation |->
                  JSBoolean(isAggregateFunction(field.name))]
          [] field.type = "CaseExpression" ->
               [name |-> IF hasAlias THEN alias ELSE "case_expression",
                alias |-> alias, type |-> "case", table |-> null,
                expression |-> "CASE expression", aggregation |-> JSNull]
          [] OTHER ->
               [name |-> IF hasAlias THEN alias ELSE "expression",
                alias |-> alias, type |-> "expression", table |-> null,
                expression |-> "complex expression",
                aggregation |-> JSNull]]

\* the TableReference entries of from.tables and of the joins' tables
extractTableInfo(fromClause) ==
  IF fromClause = NullNode THEN <<>>
  ELSE LET joinTables == [i \in DOMAIN fromClause.joins |->
                            fromClause.joins[i].table]
       IN SelectSeq([i \in DOMAIN (fromClause.tables \o joinTables) |->
                       LET node == (fromClause.tables \o joinTables)[i] IN
                       IF node.type = "TableReference"
                       THEN [name |-> node.name, alias |-> node.alias,
                             schema |-> node.schema]
                       ELSE NullNode],
                    LAMBDA e : e # NullNode)

extractJoinCondition(condition) ==
  IF condition.type = "BinaryExpression"
  THEN [left |-> extractFieldName(condition.left),
        operator |-> condition.operator,
        right |-> extractFieldName(condition.right)]
  ELSE NullNode

extractJoinInfo(joins) ==
  [i \in DOMAIN joins |->
     [type |-> joins[i].type,
      table |-> Prop(joins[i].table, "name"),
      alias |-> joins[i].table.alias,
      condition |-> IF joins[i].condition # NullNode
                    THEN extractJoinCondition(joins[i].condition)
                    ELSE NullNode]]

extractOrderBy(orderBy) ==
  IF orderBy = NullNode THEN <<>>
  ELSE [i \in DOMAIN orderBy.columns |->
          [field |-> extractFieldName(orderBy.columns[i].column),
           direction |-> orderBy.columns[i].direction]]

extractGroupBy(groupBy) ==
  IF groupBy = NullNode THEN <<>>
  ELSE [i \in DOMAIN groupBy.columns |-> extractFieldName(groupBy.columns[i])]

extractLimit(limit) ==
  IF limit = NullNode THEN NullNode
  ELSE [count |-> extractValue(limit.count),
        offset |-> IF limit.offset # NullNode THEN extractValue(limit.offset)
                   ELSE JSNull]

analyzeSelectQuery(ast) ==
  LET joins == IF ast.from # NullNode THEN ast.from.joins ELSE <<>> IN
  [conditions |-> extractConditions(ast.where),
   fields |-> extractFields(ast.columns),
   tables |-> extractTableInfo(ast.from),
   joins |-> extractJoinInfo(joins),
   orderBy |-> extractOrderBy(ast.orderBy),
   groupBy |-> extractGroupBy(ast.groupBy),
   limit |-> extractLimit(ast.limit)]

\* a filter that keeps every field (faulty variant of AggregateFields)
AllFields(fields) == fields

\* fields.filter((f) => f.aggregation)
AggregateFields(fields) ==
  SelectSeq(fields, LAMBDA f : f.aggregation = JSBoolean(TRUE))

ConditionWeight == 2
TableWeight == 3
JoinWeight == 4
AggregateWeight == 2
GroupByWeight == 3
OrderByWeight == 2
SimpleMax == 5
MediumMax == 15

\* a complexity that ignores the score (faulty variant of
\* analyzeQueryComplexity)
analyzeQueryComplexityAlwaysSimple(analysisResult) ==
  [level |-> "simple", score |-> 0, factors |-> <<>>]

\* the factor texts are written with an English suffix in place of the
\* Chinese one of the source
analyzeQueryComplexity(analysisResult) ==
  LET nc == Len(analysisResult.conditions)
      nt == Len(analysisResult.tables)
      nj == Len(analysisResult.joins)
      na == Len(AggregateFields(analysisResult.fields))
      hasGroupBy == Len(analysisResult.groupBy) > 0
      hasOrderBy == Len(analysisResult.orderBy) > 0
      score == (IF nc > 0 THEN nc * ConditionWeight ELSE 0)
               + (IF nt > 1 THEN (nt - 1) * TableWeight ELSE 0)
               + (IF nj > 0 THEN nj * JoinWeight ELSE 0)
               + (IF na > 0 THEN na * AggregateWeight ELSE 0)
               + (IF hasGroupBy THEN GroupByWeight ELSE 0)
               + (IF hasOrderBy THEN OrderByWeight ELSE 0)
      factors == (IF nc > 0 THEN <<ToString(nc) \o " conditions">> ELSE <<>>)
                 \o (IF nt > 1 THEN <<ToString(nt) \o " tables">> ELSE <<>>)
                 \o (IF nj > 0 THEN <<ToString(nj) \o " JOIN">> ELSE <<>>)
                 \o (IF na > 0 THEN <<ToString(na) \o " aggregates">>
                     ELSE <<>>)
                 \o (IF hasGroupBy THEN <<"GROUP BY">> ELSE <<>>)
                 \o (IF hasOrderBy THEN <<"ORDER BY">> ELSE <<>>)
  IN [level |-> IF score <= SimpleMax THEN "simple"
                ELSE IF score <= MediumMax THEN "medium" ELSE "complex",
      score |-> score, factors |-> factors]

analyzeSQL(sqlString, opts) ==
  Let(parseSQL(sqlString, opts), LAMBDA parseResult :
    IF ~parseResult.success
    THEN [success |-> FALSE, error |-> parseResult.errors[1].message,
          query |-> [type |-> "unknown", sql |-> Trim(sqlString)]]
    ELSE LET ast == parseResult.ast IN
         IF ast.type = "SelectStatement"
         THEN Let(analyzeSelectQuery(ast), LAMBDA analysis :
                [success |-> TRUE,
                 query |-> [type |-> ast.type, sql |-> Trim(sqlString)],
                 analysis |-> analysis,
                 complexity |-> analyzeQueryComplexity(analysis),
                 ast |-> parseResult])
         ELSE [success |-> TRUE,
               query |-> [type |-> ast.type, sql |-> Trim(sqlString)],
               analysis |-> [conditions |-> <<>>, fields |-> <<>>,
                             tables |-> extractTablesOfObject(ast),
                             joins |-> <<>>, orderBy |-> <<>>,
                             groupBy |-> <<>>, limit |-> NullNode],
               complexity |-> [level |-> "simple", score |-> 0,
                               factors |-> <<>>],
               ast |-> parseResult])

(***************************************************************************)
(* extractColumns (src/index.js)                                           *)
(***************************************************************************)
\* the nodes whose column property is a string, and those whose columns
\* property is an array of strings
StringColumnNodes == {"Assignment"}
StringColumnsNodes == {"InsertStatement", "CTEExpression"}

\* col.name of the elements of node.columns that have a non-empty name
RECURSIVE ColumnsNames(_, _)
ColumnsNames(cols, i) ==
  IF i > Len(cols) THEN <<>>
  ELSE (IF "name" \in DOMAIN cols[i] /\ cols[i].name # ""
        THEN <<cols[i].name>> ELSE <<>>) \o ColumnsNames(cols, i + 1)

\* the names columns.add() receives at node itself, in order
OwnColumns(node) ==
  (IF node.type \in {"ColumnReference", "Identifier"} /\ node.name # ""
   THEN <<node.name>> ELSE <<>>)
  \o (IF "column" \notin DOMAIN node THEN <<>>
      ELSE IF node.type \in StringColumnNodes
      THEN (IF node.column # "" THEN <<node.column>> ELSE <<>>)
      ELSE IF "name" \in DOMAIN node.column /\ node.column.name # ""
      THEN <<node.column.name>> ELSE <<>>)
  \o (IF "columns" \notin DOMAIN node THEN <<>>
      ELSE IF node.type \in StringColumnsNodes
      THEN (IF node.columns = NullList THEN <<>> ELSE node.columns)
      ELSE ColumnsNames(node.columns, 1))

\* the names added by traverseAST over node and then over nodes[i..]
RECURSIVE TraverseAllColumns(_)
RECURSIVE TraverseAllColumnsAll(_, _)
TraverseAllColumns(node) ==
  OwnColumns(node) \o TraverseAllColumnsAll(Children(node), 1)
TraverseAllColumnsAll(nodes, i) ==
  IF i > Len(nodes) THEN <<>>
  ELSE TraverseAllColumns(nodes[i]) \o TraverseAllColumnsAll(nodes, i + 1)

extractColumns(sqlString) ==
  Let(parseSQL(sqlString, <<>>), LAMBDA result :
    IF ~result.success THEN <<>>
    ELSE SetOrder(TraverseAllColumns(result.ast), <<>>))

(***************************************************************************)
(* The entry points called with any JavaScript value.  A call returns      *)
(* Returned(value) or Throw(error), the exception that reaches the caller. *)
(***************************************************************************)
JSUndefined == [t |-> "undefined"]
JSObject == [t |-> "object"]
\* typeof of the arguments that are not strings: null, undefined, 5 and {}
NonStrings == {"null", "undefined", "number", "object"}
JSValue(type, s) ==
  CASE type = "string" -> JSString(s)
    [] type = "null" -> JSNull
    [] type = "undefined" -> JSUndefined
    [] type = "number" -> JSNumber(5, "")
    [] type = "object" -> JSObject
\* typeof v === "string"
IsString(v) == v.t = "string"

Returned(v) == [ok |-> TRUE, value |-> v]

\* parseSQL: the type check stands before the try block
parseSQLEntry(arg, opts) ==
  IF ~IsString(arg)
  THEN Throw(SQLError("Input must be a string", "INVALID_INPUT", 0, 0, <<>>))
  ELSE Returned(parseSQL(arg.v, opts))

\* validateSQL: its catch block turns the exception of parseSQL into a
\* VALIDATION_ERROR diagnostic
validateSQLEntry(arg, opts) ==
  Let(parseSQLEntry(arg, opts), LAMBDA r :
    IF r.ok THEN Returned(validateSQL(arg.v, opts))
    ELSE Returned([valid |-> FALSE,
                   errors |-> <<[code |-> "VALIDATION_ERROR",
                                 message |-> r.err.message,
                                 line |-> 0, column |-> 0]>>]))

\* extractTables, extractColumns: the catch block returns []
extractTablesEntry(arg) ==
  Let(parseSQLEntry(arg, <<>>), LAMBDA r :
    IF r.ok THEN Returned(extractTables(arg.v)) ELSE Returned(<<>>))
extractColumnsEntry(arg) ==
  Let(parseSQLEntry(arg, <<>>), LAMBDA r :
    IF r.ok THEN Returned(extractColumns(arg.v)) ELSE Returned(<<>>))

\* analyzeSQL: the catch block evaluates sql.trim(), a TypeError when sql
\* is null, undefined, a number or a plain object
analyzeSQLEntry(arg, opts) ==
  Let(parseSQLEntry(arg, opts), LAMBDA r :
    IF r.ok THEN Returned(analyzeSQL(arg.v, opts)) ELSE Throw(InternalError))

\* what the caller observes: the returned value or the exception
Outcome(r) == IF r.ok THEN r.value ELSE [threw |-> TRUE, error |-> r.err]
ListOutcome(r) ==
  IF r.ok THEN [called |-> TRUE, names |-> r.value]
  ELSE [threw |-> TRUE, error |-> r.err]

(***************************************************************************)
(* Inputs.  A statement is written as a sequence of words; Text joins the  *)
(* spelled words with single spaces into the JavaScript string.  A word    *)
(* that is not in Spelling is a one-character word.                        *)
(***************************************************************************)
Spelling ==
     ("SELECT" :> <<"S","E","L","E","C","T">>)
  @@ ("FROM" :> <<"F","R","O","M">>)
  @@ ("WHERE" :> <<"W","H","E","R","E">>)
  @@ ("AND" :> <<"A","N","D">>)
  @@ ("OR" :> <<"O","R">>)
  @@ ("NOT" :> <<"N","O","T">>)
  @@ ("IS" :> <<"I","S">>)
  @@ ("NULL" :> <<"N","U","L","L">>)
  @@ ("IN" :> <<"I","N">>)
  @@ ("BETWEEN" :> <<"B","E","T","W","E","E","N">>)
  @@ ("LIKE" :> <<"L","I","K","E">>)
  @@ ("JOIN" :> <<"J","O","I","N">>)
  @@ ("ON" :> <<"O","N">>)
  @@ ("GROUP" :> <<"G","R","O","U","P">>)
  @@ ("BY" :> <<"B","Y">>)
  @@ ("HAVING" :> <<"H","A","V","I","N","G">>)
  @@ ("ORDER" :> <<"O","R","D","E","R">>)
  @@ ("DESC" :> <<"D","E","S","C">>)
  @@ ("LIMIT" :> <<"L","I","M","I","T">>)
  @@ ("UNION" :> <<"U","N","I","O","N">>)
  @@ ("ALL" :> <<"A","L","L">>)
  @@ ("ANY" :> <<"A","N","Y">>)
  @@ ("INSERT" :> <<"I","N","S","E","R","T">>)
  @@ ("INTO" :> <<"I","N","T","O">>)
  @@ ("VALUES" :> <<"V","A","L","U","E","S">>)
  @@ ("UPDATE" :> <<"U","P","D","A","T","E">>)
  @@ ("SET" :> <<"S","E","T">>)
  @@ ("DELETE" :> <<"D","E","L","E","T","E">>)
  @@ ("COUNT" :> <<"C","O","U","N","T">>)
  @@ ("SUM" :> <<"S","U","M">>)
  @@ ("select" :> <<"s","e","l","e","c","t">>)
  @@ ("from" :> <<"f","r","o","m">>)
  @@ ("where" :> <<"w","h","e","r","e">>)
  @@ ("and" :> <<"a","n","d">>)
  @@ ("is" :> <<"i","s">>)
  @@ ("null" :> <<"n","u","l","l">>)
  @@ ("count" :> <<"c","o","u","n","t">>)
  @@ ("'x'" :> <<"'","x","'">>)
  @@ (">=" :> <<">","=">>)
  @@ ("t2" :> <<"t","2">>)
  @@ ("WITH" :> <<"W","I","T","H">>)
  @@ ("AS" :> <<"A","S">>)
  @@ ("users" :> <<"u","s","e","r","s">>)
  @@ ("email" :> <<"e","m","a","i","l">>)
  @@ ("age" :> <<"a","g","e">>)
  @@ ("name" :> <<"n","a","m","e">>)
  @@ ("18" :> <<"1","8">>)
  @@ ("65" :> <<"6","5">>)
  @@ ("'A%'" :> <<"'","A","%","'">>)
  @@ ("--" :> <<"-","-">>)
  @@ ("/*" :> <<"/","*">>)
  @@ ("\"t\"" :> <<"\"","t","\"">>)
  @@ ("<backtick>u<backtick>" :> <<Backtick,"u",Backtick>>)
  @@ ("\"\"" :> <<"\"","\"">>)
  @@ ("<backtick><backtick>" :> <<Backtick,Backtick>>)
  @@ ("*/" :> <<"*","/">>)
  @@ ("CASE" :> <<"C","A","S","E">>)
  @@ ("WHEN" :> <<"W","H","E","N">>)
  @@ ("THEN" :> <<"T","H","E","N">>)
  @@ ("ELSE" :> <<"E","L","S","E">>)
  @@ ("END" :> <<"E","N","D">>)
  @@ ("OVER" :> <<"O","V","E","R">>)
  @@ ("PARTITION" :> <<"P","A","R","T","I","T","I","O","N">>)
  @@ ("ROWS" :> <<"R","O","W","S">>)
  @@ ("PRECEDING" :> <<"P","R","E","C","E","D","I","N","G">>)
  @@ ("CURRENT" :> <<"C","U","R","R","E","N","T">>)
  @@ ("ROW" :> <<"R","O","W">>)
  @@ ("LEFT" :> <<"L","E","F","T">>)
  @@ ("RIGHT" :> <<"R","I","G","H","T">>)
  @@ ("FULL" :> <<"F","U","L","L">>)
  @@ ("OUTER" :> <<"O","U","T","E","R">>)
  @@ ("CROSS" :> <<"C","R","O","S","S">>)
  @@ ("INNER" :> <<"I","N","N","E","R">>)
  @@ ("ILIKE" :> <<"I","L","I","K","E">>)
  @@ ("!=" :> <<"!","=">>)
  @@ ("<=" :> <<"<","=">>)
  @@ ("<>" :> <<"<",">">>)
  @@ ("||" :> <<"|","|">>)
  @@ ("s.t" :> <<"s",".","t">>)
  @@ ("t.a" :> <<"t",".","a">>)
  @@ ("u.b" :> <<"u",".","b">>)
  @@ ("t.c" :> <<"t",".","c">>)
  @@ ("u.d" :> <<"u",".","d">>)
  @@ ("t.e" :> <<"t",".","e">>)
  @@ ("u.f" :> <<"u",".","f">>)
  @@ ("e" :> <<"e">>)
  @@ ("f" :> <<"f">>)
  @@ ("UNBOUNDED" :> <<"U","N","B","O","U","N","D","E","D">>)
  @@ ("FOLLOWING" :> <<"F","O","L","L","O","W","I","N","G">>)
  @@ ("RANGE" :> <<"R","A","N","G","E">>)
  @@ ("INTERVAL" :> <<"I","N","T","E","R","V","A","L">>)
  @@ ("DAY" :> <<"D","A","Y">>)
  @@ ("HOUR" :> <<"H","O","U","R">>)
  @@ ("'1'" :> <<"'","1","'">>)
  @@ ("hour" :> <<"h","o","u","r">>)

Word(w) == IF w \in DOMAIN Spelling THEN Spelling[w] ELSE <<w>>

RECURSIVE Text(_)
Text(words) ==
  IF words = <<>> THEN <<>>
  ELSE IF Len(words) = 1 THEN Word(words[1])
  ELSE LET half == Len(words) \div 2 IN
       Text(SubSeq(words, 1, half)) \o <<" ">>
         \o Text(SubSeq(words, half + 1, Len(words)))

\* every statement cut after 0, 1, 2, ... words
Prefixes(words) == {SubSeq(words, 1, n) : n \in 0..Len(words)}

\* well-formed statements of each kind
Statements ==
  { <<"SELECT","a","FROM","t","WHERE","b","=","1","AND","c","IS","NOT",
      "NULL">>,
    <<"SELECT","a",",","b","FROM","t","JOIN","u","ON","a","=","b","GROUP",
      "BY","a","HAVING","a",">","1","ORDER","BY","a","DESC","LIMIT","5">>,
    <<"SELECT","COUNT","(","*",")","FROM","t","WHERE","a","IN","(","1",",",
      "2",")","OR","b","BETWEEN","1","AND","2">>,
    <<"INSERT","INTO","t","(","a",")","VALUES","(","1",")">>,
    <<"UPDATE","t","SET","a","=","1","WHERE","b","=","2">>,
    <<"DELETE","FROM","t","WHERE","a","=","1">>,
    <<"SELECT","a","FROM","t","UNION","ALL","SELECT","b","FROM","u","ORDER",
      "BY","a">>,
    <<"SELECT","a","FROM","t","WHERE","a",">","ANY","(","SELECT","b","FROM",
      "u",")">>,
    <<"select","a","from","t","where","b","is","null">> }

\* statements with a wrong, a surplus or an unreadable token
Malformed ==
  { <<"SELECT","a","FROM","t","WHERE","a","IS","1">>,
    <<"SELECT","a","FROM","t","WHERE","a","IS","NOT","1">>,
    <<"SELECT","a","FROM","t","WHERE","a",">","ANY","(","1",")">>,
    <<"SELECT","a","FROM","t","WHERE","a","=","ANY","(","SELECT","b","FROM",
      "u",")">>,
    <<"SELECT","a","FROM","t",";">>,
    <<"SELECT","a","FROM","t",")">>,
    <<"SELECT","a","FROM","t","u","v">>,
    <<"SELECT","a","FROM","t","WHERE","a","=","1","1">>,
    <<"DELETE","FROM","t","t2","WHERE">>,
    <<"SELECT","FROM","t">>,
    <<"SELECT","a","\n","FROM">>,
    <<"SELECT","a","\n","FROM","t","WHERE","\n","a","IS","1">>,
    <<"SELECT","a","FROM","t","WHERE","a","=","'">>,
    <<"SELECT","@">>,
    <<"a">>,
    <<" ">> }

ParseInputs ==
  {Text(w) : w \in UNION {Prefixes(st) : st \in Statements} \cup Malformed}

ParseOptions == {<<>>, [strict |-> TRUE], [strict |-> FALSE]}

\* strings of at most MaxLexLen characters over an alphabet that reaches
\* every branch of the scanner's dispatch
MaxLexLen == 3
LexAlphabet == {"a", "1", "'", " ", "-", "/", "*", "!", "\n"}
RECURSIVE StringsOfLength(_)
StringsOfLength(n) ==
  IF n = 0 THEN {<<>>}
  ELSE {Append(st, c) : st \in StringsOfLength(n - 1), c \in LexAlphabet}
LexInputs == UNION {StringsOfLength(n) : n \in 0..MaxLexLen}
LexOptions ==
  {[includeWhitespace |-> w, includeComments |-> c] : w, c \in BOOLEAN}

\* strings of at most MaxStringLen characters with quotes, backslashes,
\* letters, spaces and newlines
MaxStringLen == 4
StringAlphabet == {"'", "\\", "a", " ", "\n"}
RECURSIVE StringsOver(_, _)
StringsOver(alphabet, n) ==
  IF n = 0 THEN {<<>>}
  ELSE {Append(st, c) : st \in StringsOver(alphabet, n - 1), c \in alphabet}
StringInputs == UNION {StringsOver(StringAlphabet, n) : n \in 0..MaxStringLen}

\* inputs without a significant token: up to MaxBlankPieces spaces, tabs,
\* newlines and comments in a row
MaxBlankPieces == 3
BlankPieces ==
  { <<" ">>, <<"\t">>, <<"\n">>, <<"-", "-", "a">>,
    <<"-", "-", " ", "a", "\n">>, <<"/", "*", " ", "a", " ", "*", "/">>,
    <<"/", "*", "*", "/">> }
RECURSIVE BlankStrings(_)
BlankStrings(n) ==
  IF n = 0 THEN {<<>>}
  ELSE {st \o piece : st \in BlankStrings(n - 1), piece \in BlankPieces}
BlankInputs == UNION {BlankStrings(n) : n \in 0..MaxBlankPieces}
AllOptions ==
  {[strict |-> st, includeComments |-> c, includeWhitespace |-> w] :
     st, c, w \in BOOLEAN}

\* UNION chains of up to MaxUnionOperands SELECTs
MaxUnionOperands == 3
ColumnNames == <<"a", "b", "c", "d", "e", "f", "g">>
TableNames == <<"t", "u", "v", "w", "x", "y", "z">>
Nth(names, i) == names[((i - 1) % Len(names)) + 1]
Operand(i) == <<"SELECT", Nth(ColumnNames, i), "FROM", Nth(TableNames, i)>>
Connectors == {<<"UNION">>, <<"UNION", "ALL">>}
RECURSIVE Chains(_)
Chains(n) ==
  IF n = 1 THEN {Operand(1)}
  ELSE {c \o conn \o Operand(n) : c \in Chains(n - 1), conn \in Connectors}
\* an ORDER BY written after the first operand instead of after the last
InnerOrdered ==
  {Operand(1) \o <<"ORDER", "BY", "a">> \o conn \o Operand(2) :
     conn \in Connectors}
Trailers ==
  {<<>>, <<"ORDER", "BY", "a">>, <<"LIMIT", "5">>,
   <<"ORDER", "BY", "a", "LIMIT", "5">>}
WithPrefix ==
  <<"WITH", "c", "AS", "(", "SELECT", "a", "FROM", "t", "UNION", "SELECT",
    "b", "FROM", "u", "ORDER", "BY", "a", ")">>
UnionInputs ==
  {Text(pre \o c \o tr) :
     pre \in {<<>>, WithPrefix},
     c \in UNION {Chains(n) : n \in 1..MaxUnionOperands} \cup InnerOrdered,
     tr \in Trailers}

\* SELECTs with up to MaxConditions predicates, MaxAggregates aggregate
\* fields, MaxJoins joins and MaxTables comma-separated tables
MaxConditions == 3
MaxAggregates == 2
MaxJoins == 1
MaxTables == 2
Predicates ==
  << <<"a", "=", "1">>, <<"b", "IS", "NOT", "NULL">>,
     <<"c", "BETWEEN", "1", "AND", "2">>, <<"d", "LIKE", "'x'">>,
     <<"e", "IS", "NULL">>, <<"f", "IN", "(", "1", ",", "2", ")">>,
     <<"g", ">=", "1">> >>
Aggregates ==
  << <<"COUNT", "(", "*", ")">>, <<"SUM", "(", "b", ")">>,
     <<"count", "(", "c", ")">> >>
\* items first+1 .. first+n of a cyclic list, separated by sep
RECURSIVE Listed(_, _, _, _)
Listed(items, first, n, sep) ==
  IF n = 0 THEN <<>>
  ELSE IF n = 1 THEN Nth(items, first + 1)
  ELSE Nth(items, first + 1) \o sep \o Listed(items, first + 1, n - 1, sep)
RECURSIVE JoinWords(_)
JoinWords(n) ==
  IF n = 0 THEN <<>>
  ELSE JoinWords(n - 1)
         \o <<"JOIN", Nth(TableNames, n + 3), "ON", "a", "=", "b">>
SelectWords(nc, first, conn, na, nj, nt, grouped, ordered) ==
  <<"SELECT", "a">>
    \o (IF na = 0 THEN <<>> ELSE <<",">> \o Listed(Aggregates, 0, na, <<",">>))
    \o <<"FROM">>
    \o Listed([i \in DOMAIN TableNames |-> <<TableNames[i]>>], 0, nt, <<",">>)
    \o JoinWords(nj)
    \o (IF nc = 0 THEN <<>>
        ELSE <<"WHERE">> \o Listed(Predicates, first, nc, <<conn>>))
    \o (IF grouped THEN <<"GROUP", "BY", "a">> ELSE <<>>)
    \o (IF ordered THEN <<"ORDER", "BY", "a">> ELSE <<>>)
OtherStatements ==
  { <<"SELECT", "*", "FROM", "users", "WHERE", "email", "IS", "NOT", "NULL",
      "AND", "age", "BETWEEN", "18", "AND", "65", "AND", "name", "LIKE",
      "'A%'">>,
    <<"SELECT", "a", "FROM", "t", "WHERE", "NOT", "(", "a", "=", "1", ")",
      "AND", "(", "b", ">=", "1", "OR", "c", "IS", "NULL", ")">>,
    <<"DELETE", "FROM", "t", "WHERE", "a", "=", "1">>,
    <<"INSERT", "INTO", "t", "(", "a", ")", "VALUES", "(", "1", ")">>,
    <<"UPDATE", "users", "SET", "a", "=", "1", "WHERE", "b", "=", "2">>,
    <<"SELECT", "a", "FROM", "t", "WHERE">> }
\* WHERE predicates written with NOT before LIKE, IN and BETWEEN, with the
\* condition type documented for each
NegatedPredicates ==
  { <<"pattern", <<"d", "NOT", "LIKE", "'x'">> >>,
    <<"list", <<"f", "NOT", "IN", "(", "1", ",", "2", ")">> >>,
    <<"range", <<"c", "NOT", "BETWEEN", "1", "AND", "2">> >> }
NegatedWhere(predicate) == <<"SELECT", "a", "FROM", "t", "WHERE">> \o predicate
\* single-table SELECTs whose WHERE joins n comparisons, for the n at which
\* the level changes
LongWheres ==
  {<<"SELECT", "a", "FROM", "t", "WHERE">>
     \o Listed(<< <<"a", "=", "1">>, <<"g", ">=", "1">> >>, 0, n, <<"AND">>) :
     n \in {2, 3, 7, 8}}
AnalyzeInputs ==
  {Text(SelectWords(nc, first, conn, na, nj, nt, grouped, ordered)) :
     nc \in 0..MaxConditions, first \in 0..2, conn \in {"AND", "OR"},
     na \in 0..MaxAggregates, nj \in 0..MaxJoins, nt \in 1..MaxTables,
     grouped \in BOOLEAN, ordered \in BOOLEAN}
  \cup {Text(w) : w \in OtherStatements \cup LongWheres}
  \cup {Text(NegatedWhere(np[2])) : np \in NegatedPredicates}

\* the ways to write a join, each with its SQL join kind
JoinKinds ==
  << <<"INNER", <<"JOIN">> >>, <<"INNER", <<"INNER", "JOIN">> >>,
     <<"LEFT", <<"LEFT", "JOIN">> >>,
     <<"LEFT OUTER", <<"LEFT", "OUTER", "JOIN">> >>,
     <<"RIGHT", <<"RIGHT", "JOIN">> >>,
     <<"RIGHT OUTER", <<"RIGHT", "OUTER", "JOIN">> >>,
     <<"FULL", <<"FULL", "JOIN">> >>,
     <<"FULL OUTER", <<"FULL", "OUTER", "JOIN">> >>,
     <<"CROSS", <<"CROSS", "JOIN">> >> >>
\* SELECTs with up to MaxJoinChain joins, each written in one of these ways
MaxJoinChain == 2
JoinPicks == UNION {[1..n -> DOMAIN JoinKinds] : n \in 1..MaxJoinChain}
RECURSIVE JoinChainWords(_, _)
JoinChainWords(picks, n) ==
  IF n = 0 THEN <<>>
  ELSE JoinChainWords(picks, n - 1)
         \o JoinKinds[picks[n]][2] \o <<Nth(TableNames, n + 1)>>
         \o (IF JoinKinds[picks[n]][1] = "CROSS" THEN <<>>
             ELSE <<"ON", "a", "=", "b">>)
JoinedSelect(picks) ==
  <<"SELECT", "a", "FROM", "t">> \o JoinChainWords(picks, Len(picks))
JoinInputs == {Text(JoinedSelect(picks)) : picks \in JoinPicks}

\* parenthesis-free expressions: operands a, b, c, ... joined by up to
\* MaxOperators binary operators, one operand at most with a unary prefix
MaxOperators == 3
ExprOperators == <<"OR", "AND", "=", "<", "LIKE", "+", "-", "*">>
OperatorPicks == UNION {[1..n -> DOMAIN ExprOperators] : n \in 0..MaxOperators}
PrefixPicks(n) ==
  {<<0, "">>} \cup {<<k, u>> : k \in 1..(n + 1), u \in {"-", "NOT"}}
ExprOperand(k, prefix) ==
  (IF prefix[1] = k THEN <<prefix[2]>> ELSE <<>>) \o <<Nth(ColumnNames, k)>>
RECURSIVE ExprWords(_, _, _)
ExprWords(ops, prefix, n) ==
  IF n = 0 THEN ExprOperand(1, prefix)
  ELSE ExprWords(ops, prefix, n - 1) \o <<ExprOperators[ops[n]]>>
         \o ExprOperand(n + 1, prefix)
\* expressions with the other operators of each level and with the
\* operators that take a special right-hand side
OtherExpressions ==
  { <<"a","IS","NULL","OR","b","IS","NOT","NULL","AND","c","=","d">>,
    <<"a","BETWEEN","b","+","1","AND","c","*","2","AND","d","<","e">>,
    <<"a","+","b","BETWEEN","c","AND","d","OR","e">>,
    <<"a","ILIKE","b","||","c">>,
    <<"a","/","b","%","c","-","d">>,
    <<"a","!=","b","<=","c",">=","d",">","e">>,
    <<"a","<>","b","=","c">>,
    <<"-","-","a","*","+","b">>,
    <<"NOT","NOT","a","AND","NOT","b">>,
    <<"a","=","b","IS","NULL">>,
    <<"a","IS","NULL","=","b">>,
    <<"a","<","b","IS","NOT","NULL">>,
    <<"1","+","2","*","3">>,
    <<"a","-","b","-","c">> }
WhereSelect(expr) == <<"SELECT", "x", "FROM", "t", "WHERE">> \o expr
ExprInputs ==
  {Text(WhereSelect(ExprWords(ops, prefix, Len(ops)))) :
     <<ops, prefix>> \in UNION {{o} \X PrefixPicks(Len(o)) : o \in OperatorPicks}}
  \cup {Text(WhereSelect(e)) : e \in OtherExpressions}

\* a quantifier after each comparison operator and after other operators,
\* followed by a sub-query, by a parenthesised value, by a bare operand or
\* by nothing
ComparisonOperators == {"=", "!=", "<>", "<", ">", "<=", ">="}
OtherOperators == {"LIKE", "+", "AND"}
Quantifiers == {"ANY", "ALL"}
QuantifiedOperands ==
  {<<"(", "SELECT", "b", "FROM", "u", ")">>, <<"(", "1", ")">>, <<"b">>, <<>>}
SubQueryOperand == <<"(", "SELECT", "b", "FROM", "u", ")">>
QuantifiedWhere(operator, quantifier, operand) ==
  WhereSelect(<<"a", operator, quantifier>> \o operand)
QuantifierCases ==
  (ComparisonOperators \cup OtherOperators) \X Quantifiers
    \X QuantifiedOperands
QuantifierInputs ==
  {Text(QuantifiedWhere(c[1], c[2], c[3])) : c \in QuantifierCases}

\* a table reference, plain or with a schema (written with or without
\* spaces around the dot), without alias, with AS alias and with a bare
\* alias, in each position that takes a table reference
TableSpellings == {<<"t">>, <<"s", ".", "t">>, <<"s.t">>}
AliasSpellings == {<<>>, <<"AS", "x">>, <<"x">>}
TablePositions == {"FROM", "JOIN", "INSERT INTO", "UPDATE", "DELETE FROM"}
ReferenceStatement(position, reference) ==
  CASE position = "FROM" ->
         <<"SELECT", "a", "FROM">> \o reference \o <<"WHERE", "a", "=", "1">>
    [] position = "JOIN" ->
         <<"SELECT", "a", "FROM", "u", "JOIN">> \o reference
           \o <<"ON", "a", "=", "b">>
    [] position = "INSERT INTO" ->
         <<"INSERT", "INTO">> \o reference \o <<"VALUES", "(", "1", ")">>
    [] position = "UPDATE" ->
         <<"UPDATE">> \o reference \o <<"SET", "a", "=", "1">>
    [] position = "DELETE FROM" ->
         <<"DELETE", "FROM">> \o reference \o <<"WHERE", "a", "=", "1">>
ReferenceCases == TablePositions \X TableSpellings \X AliasSpellings
ReferenceInputs ==
  {Text(ReferenceStatement(c[1], c[2] \o c[3])) : c \in ReferenceCases}

\* CASE expressions with and without an operand, with 0..MaxWhens WHEN
\* clauses, with and without ELSE, with and without END
MaxWhens == 2
CaseOperands == {<<>>, <<"x">>}
CaseElses == {<<>>, <<"ELSE", "0">>}
CaseEnds == {<<>>, <<"END">>}
RECURSIVE WhenWords(_)
WhenWords(n) ==
  IF n = 0 THEN <<>>
  ELSE WhenWords(n - 1) \o <<"WHEN", "a", "THEN", "1">>
CaseWords(operand, whens, else, end) ==
  <<"CASE">> \o operand \o WhenWords(whens) \o else \o end
CaseSelect(words) == <<"SELECT">> \o words \o <<"FROM", "t">>
CaseCases == CaseOperands \X (0 .. MaxWhens) \X CaseElses \X CaseEnds
CaseInputs ==
  {Text(CaseSelect(CaseWords(c[1], c[2], c[3], c[4]))) : c \in CaseCases}

\* a statement with a column reference on each side of the join condition,
\* as field and as value of the WHERE condition, in GROUP BY and in
\* ORDER BY, each written with or without its table
NamePlaces ==
  {"joinLeft", "joinRight", "field", "value", "groupBy", "orderBy"}
PlaceTable ==
  [joinLeft |-> "t", joinRight |-> "u", field |-> "t", value |-> "u",
   groupBy |-> "t", orderBy |-> "u"]
PlaceName ==
  [joinLeft |-> "a", joinRight |-> "b", field |-> "c", value |-> "d",
   groupBy |-> "e", orderBy |-> "f"]
QualifiedName(place) == PlaceTable[place] \o "." \o PlaceName[place]
NameText(place, qualified) ==
  IF place \in qualified THEN QualifiedName(place) ELSE PlaceName[place]
NamesSelect(qualified) ==
  <<"SELECT", "a", "FROM", "t", "JOIN", "u", "ON",
    NameText("joinLeft", qualified), "=", NameText("joinRight", qualified),
    "WHERE", NameText("field", qualified), "=", NameText("value", qualified),
    "GROUP", "BY", NameText("groupBy", qualified),
    "ORDER", "BY", NameText("orderBy", qualified)>>
NamesInputs == {Text(NamesSelect(q)) : q \in SUBSET NamePlaces}

\* window frames: ROWS or RANGE with one bound or BETWEEN two bounds; a
\* bound is UNBOUNDED, an offset or an interval followed by PRECEDING, by
\* FOLLOWING, by nothing or by another word, or it is CURRENT ROW
FrameTypes == {"ROWS", "RANGE"}
BoundKinds ==
  [UNBOUNDED |-> <<"UNBOUNDED">>, OFFSET |-> <<"1">>,
   INTERVAL |-> <<"INTERVAL", "1", "DAY">>]
BoundFollowers == {<<"PRECEDING">>, <<"FOLLOWING">>, <<>>, <<"x">>}
FrameBounds ==
  ((DOMAIN BoundKinds) \X BoundFollowers) \cup {<<"CURRENT_ROW", <<>>>>}
BoundWords(bound) ==
  IF bound[1] = "CURRENT_ROW" THEN <<"CURRENT", "ROW">>
  ELSE BoundKinds[bound[1]] \o bound[2]
FrameWords(frameType, bounds) ==
  <<frameType>> \o
    (IF Len(bounds) = 2
     THEN <<"BETWEEN">> \o BoundWords(bounds[1]) \o <<"AND">>
            \o BoundWords(bounds[2])
     ELSE BoundWords(bounds[1]))
FrameSelect(frameType, bounds) ==
  <<"SELECT", "SUM", "(", "a", ")", "OVER", "(", "ORDER", "BY", "a">>
    \o FrameWords(frameType, bounds) \o <<")", "FROM", "t">>
FrameCases ==
  FrameTypes \X ([1..1 -> FrameBounds] \cup [1..2 -> FrameBounds])
FrameInputs == {Text(FrameSelect(c[1], c[2])) : c \in FrameCases}

\* INTERVAL expressions: a value, a unit keyword in either case or none,
\* and a binary operator with its right operand or none after them
IntervalValues == {"1", "'1'", "x"}
IntervalUnits == {<<>>, <<"DAY">>, <<"HOUR">>, <<"hour">>}
IntervalTails == {<<>>} \cup {<<op, "b">> : op \in {"+", "*", "=", "AND"}}
IntervalWords(value, unit, tail) == <<"INTERVAL", value>> \o unit \o tail
IntervalSelect(words) == <<"SELECT">> \o words \o <<"FROM", "t">>
IntervalCases == IntervalValues \X IntervalUnits \X IntervalTails
IntervalInputs ==
  {Text(IntervalSelect(IntervalWords(c[1], c[2], c[3]))) :
     c \in IntervalCases}

\* table references that begin with a parenthesis, followed by SELECT or
\* not, and one that does not, in each position that takes a table
\* reference
ParenthesizedReferences ==
  {<<"(", "t", ")">>, <<"(", "t", ")", "x">>, <<"(", ")">>,
   <<"(", "(", "SELECT", "a", "FROM", "u", ")", ")">>}
SubQueryReferences ==
  {<<"(", "SELECT", "a", "FROM", "u", ")", "x">>,
   <<"(", "SELECT", "a", "FROM", "u", ")">>}
CursorReferences ==
  ParenthesizedReferences \cup SubQueryReferences \cup {<<"t">>}
CursorCases == TablePositions \X CursorReferences
CursorInputs == {Text(ReferenceStatement(c[1], c[2])) : c \in CursorCases}

\* a SELECT with a gap of whitespace or a comment between its clauses and
\* with an ending that is empty, a comment, an unterminated comment, left
\* over words or a character the lexer rejects
OptionGaps ==
  {<<" ">>, <<"\n">>, <<"\t", " ">>, <<" ", "-", "-", " ", "c", "\n">>,
   <<"/", "*", " ", "c", " ", "*", "/">>, <<" ", "#", "c", "\n", " ">>}
OptionEndings ==
  {<<>>, <<" ", "-", "-", "c">>, <<"\n", "/", "*", "c">>, <<" ", "x", " ", "y">>,
   <<" ", "-", "-", "\n", "$">>, <<"\n">>}
OptionStatements ==
  {Text(<<"SELECT", "a">>) \o gap \o Text(<<"FROM", "t">>) \o ending :
     gap \in OptionGaps, ending \in OptionEndings}
OptionInputs == OptionStatements \cup LexInputs

\* statements that name the same table more than once, a subquery, a CTE,
\* quoted names, and each statement kind, whole or cut short
TableStatements ==
  { <<"SELECT", "a", "FROM", "t", "JOIN", "t", "ON", "a", "=", "b">>,
    <<"SELECT", "a", "FROM", "t", "x", "JOIN", "t", "y", "ON", "a", "=",
      "b", "JOIN", "u", "ON", "a", "=", "b">>,
    <<"SELECT", "a", "FROM", "t", ",", "t", ",", "u">>,
    <<"SELECT", "a", "FROM", "(", "SELECT", "b", "FROM", "u", ")", "x",
      "JOIN", "u", "ON", "a", "=", "b">>,
    <<"SELECT", "a", "FROM", "t", "WHERE", "a", "IN", "(", "SELECT", "b",
      "FROM", "t", ")">>,
    <<"WITH", "c", "AS", "(", "SELECT", "a", "FROM", "t", ")", "SELECT",
      "a", "FROM", "c", "JOIN", "t", "ON", "a", "=", "b">>,
    <<"SELECT", "a", "FROM", "t", "UNION", "SELECT", "a", "FROM", "t">>,
    <<"SELECT", "a", "FROM", "\"t\"", "JOIN", "<backtick>u<backtick>", "ON", "a", "=", "b">>,
    <<"SELECT", "a", "FROM", "\"\"">>,
    <<"SELECT", "a", "FROM", "t", "JOIN", "<backtick><backtick>", "ON", "a", "=", "b">>,
    <<"SELECT", "1">>,
    <<"INSERT", "INTO", "t", "(", "a", ")", "VALUES", "(", "1", ")">>,
    <<"UPDATE", "t", "SET", "a", "=", "1", "WHERE", "b", "=", "2">>,
    <<"DELETE", "FROM", "t", "WHERE", "a", "=", "1">> }
TableInputs ==
  {Text(w) : w \in UNION {Prefixes(st) : st \in TableStatements}}

\* short strings with quotes and newlines, and whole statements
RerunInputs ==
  StringInputs \cup {Text(w) : w \in Statements \cup Malformed}

\* statements with nested expressions, sub-queries and window functions
NestedStatements ==
  { <<"SELECT","(","(","a","+","1",")","*","-","2",")","FROM","t","WHERE",
      "NOT","(","a","=","1","OR","b","=","2",")">>,
    <<"SELECT","CASE","WHEN","a","=","1","THEN","2","ELSE","3","END","FROM",
      "t">>,
    <<"SELECT","SUM","(","a",")","OVER","(","PARTITION","BY","b","ORDER",
      "BY","c","ROWS","BETWEEN","1","PRECEDING","AND","CURRENT","ROW",")",
      "FROM","t">>,
    <<"SELECT","a","FROM","(","SELECT","b","FROM","u",")","AS","s","WHERE",
      "a","IN","(","SELECT","c","FROM","v",")">> }

\* statements whose column names sit in different properties
ColumnStatements ==
  { <<"WITH","c","(","x",",","y",")","AS","(","SELECT","a","FROM","t",")",
      "SELECT","x","FROM","c","ORDER","BY","y">>,
    <<"WITH","c","AS","(","SELECT","a","FROM","t",")","SELECT","*","FROM",
      "c">>,
    <<"SELECT","t",".","a",",","COUNT","(","b",")","FROM","t","GROUP","BY",
      "a","ORDER","BY","COUNT","(","b",")">>,
    <<"INSERT","INTO","t","(","a",",","b",")","VALUES","(","1",",","c",")">> }

\* every short string, and whole statements
ProgressInputs ==
  LexInputs \cup
    {Text(w) : w \in Statements \cup Malformed \cup ColumnStatements
                       \cup NestedStatements}

\* strings that parse and strings that do not
TotalInputs ==
  {Text(w) : w \in Statements \cup Malformed \cup ColumnStatements}

(***************************************************************************)
(* The entry points as operations on one input                             *)
(***************************************************************************)
NothingCalled ==
  /\ descent = NotCalled
  /\ lexer = NotCalled
  /\ tokenized = NotCalled
  /\ retokenized = NotCalled
  /\ reparsed = NotCalled
  /\ parsed = NotCalled
  /\ validated = NotCalled
  /\ analyzed = NotCalled
  /\ extractedTables = NotCalled
  /\ extractedColumns = NotCalled

Start(inputs, optionSets) ==
  /\ argType = "string"
  /\ sql \in inputs
  /\ options \in optionSets
  /\ NothingCalled

\* the argument of the call: sql when it is a string
Argument == JSValue(argType, sql)

\* new Lexer(sql, options).tokenize()
CallTokenize ==
  /\ tokenized = NotCalled
  /\ tokenized' = tokenize(sql, Config(options))
  /\ lexer' = tokenizeFields(sql, Config(options), NewLexer)
  /\ UNCHANGED <<descent, argType, sql, options, parsed, validated, analyzed,
                 extractedTables, extractedColumns, retokenized, reparsed>>

CallParseSQL ==
  /\ parsed = NotCalled
  /\ parsed' = Outcome(parseSQLEntry(Argument, options))
  /\ UNCHANGED <<descent, argType, sql, options, lexer, retokenized, reparsed,
                 tokenized, validated, analyzed,
               extractedTables, extractedColumns>>

CallValidateSQL ==
  /\ validated = NotCalled
  /\ validated' = Outcome(validateSQLEntry(Argument, options))
  /\ UNCHANGED <<descent, argType, sql, options, lexer, retokenized, reparsed,
                 tokenized, parsed, analyzed, extractedTables,
               extractedColumns>>

CallAnalyzeSQL ==
  /\ analyzed = NotCalled
  /\ analyzed' = Outcome(analyzeSQLEntry(Argument, options))
  /\ UNCHANGED <<descent, argType, sql, options, lexer, retokenized, reparsed,
                 tokenized, parsed, validated,
               extractedTables, extractedColumns>>

CallExtractTables ==
  /\ extractedTables = NotCalled
  /\ extractedTables' = ListOutcome(extractTablesEntry(Argument))
  /\ UNCHANGED <<descent, argType, sql, options, lexer, retokenized, reparsed,
                 tokenized, parsed, validated, analyzed,
                 extractedColumns>>

\* a second tokenize() on the instance CallTokenize used
CallTokenizeAgain ==
  /\ lexer # NotCalled
  /\ retokenized = NotCalled
  /\ lexer' = tokenizeFields(sql, Config(options), lexer)
  /\ retokenized' = tokenizeResult(lexer')
  /\ UNCHANGED <<descent, argType, sql, options, tokenized, parsed, validated,
                 analyzed, extractedTables, extractedColumns, reparsed>>

\* a second parseSQL(sql, options)
CallParseSQLAgain ==
  /\ parsed # NotCalled
  /\ reparsed = NotCalled
  /\ reparsed' = Outcome(parseSQLEntry(Argument, options))
  /\ UNCHANGED <<descent, argType, sql, options, lexer, tokenized, parsed, validated,
                 analyzed, extractedTables, extractedColumns, retokenized>>

\* new Lexer(sql, options) and the first statements of tokenize()
BeginTokenize ==
  /\ lexer = NotCalled
  /\ lexer' = ResetFields(NewLexer)
  /\ UNCHANGED <<descent, argType, sql, options, tokenized, parsed,
                 validated, analyzed, extractedTables, extractedColumns,
                 retokenized, reparsed>>

\* one iteration of the while loop of tokenize()
ScanIteration ==
  /\ lexer # NotCalled
  /\ tokenized = NotCalled
  /\ lexer.err = NullNode
  /\ lexer.L.position < Len(sql)
  /\ lexer' = ScanStep(sql, Config(options), lexer)
  /\ UNCHANGED <<descent, argType, sql, options, tokenized, parsed,
                 validated, analyzed, extractedTables, extractedColumns,
                 retokenized, reparsed>>

\* the loop of tokenize() has ended: EOF is pushed and the tokens are
\* returned, or the exception leaves the call
FinishTokenize ==
  /\ lexer # NotCalled
  /\ tokenized = NotCalled
  /\ lexer.err # NullNode \/ lexer.L.position >= Len(sql)
  /\ lexer' = PushEOF(lexer)
  /\ tokenized' = tokenizeResult(lexer')
  /\ UNCHANGED <<descent, argType, sql, options, parsed, validated,
                 analyzed, extractedTables, extractedColumns, retokenized,
                 reparsed>>

\* one rule method called on a parser that stands at token p
Descend ==
  /\ tokenized # NotCalled
  /\ tokenized.ok
  /\ descent = NotCalled
  /\ \E rule \in Rules, p \in 0..(Len(ParserTokens(tokenized.tokens)) - 1) :
       descent' =
         Let(Call(rule, ParserTokens(tokenized.tokens), p), LAMBDA r :
           [rule |-> rule, from |-> p, ok |-> r.ok,
            to |-> IF r.ok THEN r.pos ELSE p,
            err |-> IF r.ok THEN NullNode ELSE r.err])
  /\ UNCHANGED <<argType, sql, options, lexer, tokenized, parsed, validated,
                 analyzed, extractedTables, extractedColumns, retokenized,
                 reparsed>>

CallExtractColumns ==
  /\ extractedColumns = NotCalled
  /\ extractedColumns' = ListOutcome(extractColumnsEntry(Argument))
  /\ UNCHANGED <<descent, argType, sql, options, lexer, retokenized, reparsed,
                 tokenized, parsed, validated, analyzed,
                 extractedTables>>

Init == Start(ParseInputs, ParseOptions)
Next == CallTokenize \/ CallParseSQL \/ CallValidateSQL
Spec == Init /\ [][Next]_vars

\* the lexer alone, on every short string
InitLex == Start(LexInputs, LexOptions)
NextLex == CallTokenize
SpecLex == InitLex /\ [][NextLex]_vars

\* the parser on UNION chains
InitUnion == Start(UnionInputs, ParseOptions)
NextUnion == CallParseSQL
SpecUnion == InitUnion /\ [][NextUnion]_vars

\* the lexer and parseSQL on short strings with quotes
InitStrings == Start(StringInputs, LexOptions)
NextStrings == CallTokenize \/ CallParseSQL
SpecStrings == InitStrings /\ [][NextStrings]_vars

\* the lexer and parseSQL on inputs without a significant token
InitBlank == Start(BlankInputs, AllOptions)
NextBlank == CallTokenize \/ CallParseSQL
SpecBlank == InitBlank /\ [][NextBlank]_vars

\* the lexer and parseSQL called twice
InitRerun == Start(RerunInputs, LexOptions)
NextRerun ==
  \/ CallTokenize
  \/ CallTokenizeAgain
  \/ CallParseSQL
  \/ CallParseSQLAgain
SpecRerun == InitRerun /\ [][NextRerun]_vars

\* tokenize() one loop iteration at a time, then one parser rule
InitProgress == Start(ProgressInputs, {<<>>})
NextProgress ==
  \/ BeginTokenize
  \/ ScanIteration
  \/ FinishTokenize
  \/ Descend
SpecProgress == InitProgress /\ [][NextProgress]_vars

\* every entry point on strings and on values that are not strings
InitTotal ==
  /\ argType \in {"string"} \cup NonStrings
  /\ sql \in (IF argType = "string" THEN TotalInputs ELSE {""})
  /\ options \in ParseOptions
  /\ NothingCalled
NextTotal ==
  \/ CallParseSQL
  \/ CallValidateSQL
  \/ CallExtractTables
  \/ CallExtractColumns
  \/ CallAnalyzeSQL
SpecTotal == InitTotal /\ [][NextTotal]_vars

\* parseSQL and extractTables on statements that name tables
InitTables == Start(TableInputs, {<<>>})
NextTables == CallParseSQL \/ CallExtractTables
SpecTables == InitTables /\ [][NextTables]_vars

\* the analyzer on generated SELECTs
InitAnalyze == Start(AnalyzeInputs, {<<>>})
NextAnalyze == CallAnalyzeSQL
SpecAnalyze == InitAnalyze /\ [][NextAnalyze]_vars

\* the analyzer on SELECTs with joins of every kind
InitJoins == Start(JoinInputs, {<<>>})
NextJoins == CallAnalyzeSQL
SpecJoins == InitJoins /\ [][NextJoins]_vars

\* the parser on parenthesis-free expressions
InitExpr == Start(ExprInputs, {<<>>})
NextExpr == CallParseSQL
SpecExpr == InitExpr /\ [][NextExpr]_vars

\* the parser on ANY and ALL
InitQuantifier == Start(QuantifierInputs, ParseOptions)
NextQuantifier == CallParseSQL
SpecQuantifier == InitQuantifier /\ [][NextQuantifier]_vars

\* the parser on table references with and without a schema
InitReferences == Start(ReferenceInputs, ParseOptions)
NextReferences == CallParseSQL
SpecReferences == InitReferences /\ [][NextReferences]_vars

\* the parser on CASE expressions
InitCase == Start(CaseInputs, ParseOptions)
NextCase == CallParseSQL
SpecCase == InitCase /\ [][NextCase]_vars

\* the analyzer on qualified and unqualified column references
InitNames == Start(NamesInputs, {<<>>})
NextNames == CallAnalyzeSQL
SpecNames == InitNames /\ [][NextNames]_vars

\* the parser on window frames
InitFrames == Start(FrameInputs, ParseOptions)
NextFrames == CallParseSQL
SpecFrames == InitFrames /\ [][NextFrames]_vars

\* the parser on INTERVAL expressions
InitIntervals == Start(IntervalInputs, ParseOptions)
NextIntervals == CallParseSQL
SpecIntervals == InitIntervals /\ [][NextIntervals]_vars

\* the parser as a whole and rule by rule on table references that begin
\* with a parenthesis
InitCursor == Start(CursorInputs, {<<>>, [strict |-> TRUE]})
NextCursor ==
  \/ CallTokenize
  \/ CallParseSQL
  \/ Descend
SpecCursor == InitCursor /\ [][NextCursor]_vars

\* the lexer and the parser under every combination of options
InitOptions == Start(OptionInputs, AllOptions)
NextOptions == CallTokenize \/ CallParseSQL
SpecOptions == InitOptions /\ [][NextOptions]_vars

(***************************************************************************)
(* Properties                                                              *)
(***************************************************************************)
\* line and column of the character at offset i of s (i = Len(s): the end)
PositionOf(s, i) ==
  LET newlines == {k \in 1..i : s[k] = "\n"}
      lastNewline == IF newlines = {} THEN 0
                     ELSE CHOOSE k \in newlines : \A j \in newlines : j <= k
  IN <<1 + Cardinality(newlines), i - lastNewline + 1>>

C2_ValidateAgrees ==
  parsed # NotCalled /\ validated # NotCalled =>
    /\ validated.valid = parsed.success
    /\ validated.errors = parsed.errors

C2_Witness ==
  /\ parsed # NotCalled
  /\ validated # NotCalled
  /\ ~validated.valid
  /\ Len(validated.errors) = 1

\* the result of parseSQL on the same input with the other strictness
StrictResult ==
  IF Config(options).strict THEN parsed
  ELSE parseSQL(sql, [strict |-> TRUE])
LooseResult ==
  IF Config(options).strict THEN parseSQL(sql, [strict |-> FALSE])
  ELSE parsed
\* the token at which the non-strict parse of s stops
FirstUnconsumed(s) ==
  Let(tokenize(s, DefaultOptions), LAMBDA lexed :
    IF ~lexed.ok THEN NullTok
    ELSE Let(parse(lexed.tokens, DefaultOptions), LAMBDA r :
           IF ~r.ok THEN NullTok
           ELSE Cur(ParserTokens(lexed.tokens), r.pos)))

\* C3: strict mode differs only in rejecting leftover tokens: a strict
\* success is a non-strict success with the same AST, and a non-strict
\* success that leaves a non-EOF token unconsumed is a strict failure of kind
\* UNEXPECTED_TOKEN positioned at the first unconsumed token.
C3_StrictRejectsLeftovers ==
  parsed # NotCalled =>
    /\ StrictResult.success =>
         LooseResult.success /\ LooseResult.ast = StrictResult.ast
    /\ LooseResult.success /\ FirstUnconsumed(sql).type \notin {"null", "EOF"}
         => /\ ~StrictResult.success
            /\ StrictResult.errors[1].code = "UNEXPECTED_TOKEN"
            /\ StrictResult.errors[1].line = FirstUnconsumed(sql).line
            /\ StrictResult.errors[1].column = FirstUnconsumed(sql).column

\* a trailing semicolon parsed in strict mode
C3_Witness ==
  /\ parsed # NotCalled
  /\ Config(options).strict
  /\ sql = Text(<<"SELECT", "a", "FROM", "t", ";">>)
  /\ ~parsed.success
  /\ LooseResult.success

\* the statements that parse, cut short after one or more words
TruncatedStatements ==
  UNION {{Text(SubSeq(st, 1, n)) : n \in 1..(Len(st) - 1)} :
           st \in {w \in Statements : parseSQL(Text(w), <<>>).success}}

\* C4: when the input ends where the grammar requires a further token, the
\* parse fails with kind UNEXPECTED_END positioned at the EOF token.  A
\* well-formed statement cut short that does not parse is such an input:
\* every token before EOF was accepted by the parse of the whole statement.
C4_UnexpectedEndAtEOF ==
  parsed # NotCalled /\ sql \in TruncatedStatements /\ ~parsed.success =>
    /\ parsed.errors[1].code = "UNEXPECTED_END"
    /\ <<parsed.errors[1].line, parsed.errors[1].column>>
         = PositionOf(sql, Len(sql))

\* the input ends after WHERE, where an expression is required
C4_Witness ==
  /\ parsed # NotCalled
  /\ sql = Text(<<"SELECT", "a", "FROM", "t", "WHERE">>)
  /\ ~parsed.success
  /\ parsed.errors[1].code = "UNEXPECTED_TOKEN"
  /\ parsed.errors[1].context = <<"expression", "EOF">>

DocumentedKinds ==
  {"SYNTAX_ERROR", "LEXICAL_ERROR", "UNEXPECTED_TOKEN", "UNEXPECTED_END",
   "UNTERMINATED_STRING", "INVALID_IDENTIFIER", "UNSUPPORTED_FEATURE",
   "INVALID_INPUT", "EMPTY_INPUT", "VALIDATION_ERROR", "UNEXPECTED_ERROR"}

\* the positions a diagnostic about s may carry: the first character of a
\* token of s (EOF included) or, when s cannot be tokenized, a character of
\* s or its end
OffendingPositions(s) ==
  Let(tokenize(s, DefaultOptions), LAMBDA lexed :
    IF lexed.ok
    THEN {<<lexed.tokens[i].line, lexed.tokens[i].column>> :
            i \in DOMAIN lexed.tokens}
    ELSE {PositionOf(s, i) : i \in 0..Len(s)})

\* C5: every diagnostic of a failing tokenize or parse has a documented
\* kind and a line and a column that are at least 1 and are the position of
\* the first character of the offending token, or of EOF.
C5_DiagnosticWellFormed ==
  parsed # NotCalled /\ ~parsed.success =>
    /\ parsed.errors[1].code \in DocumentedKinds
    /\ parsed.errors[1].line >= 1
    /\ parsed.errors[1].column >= 1
    /\ <<parsed.errors[1].line, parsed.errors[1].column>>
         \in OffendingPositions(sql)

\* IS followed by a number: the diagnostic carries the line as its kind,
\* the column as its line and column 0
C5_Witness ==
  /\ parsed # NotCalled
  /\ sql = Text(<<"SELECT", "a", "FROM", "t", "WHERE", "a", "IS", "1">>)
  /\ ~parsed.success
  /\ parsed.errors[1].code = "1"
  /\ parsed.errors[1].line = 28
  /\ parsed.errors[1].column = 0

\* C6: tokenize either raises LEXICAL_ERROR or UNTERMINATED_STRING, or
\* returns a non-empty token list with exactly one EOF token, the last
\* one, whatever the lexer options are.
C6_SingleTrailingEOF ==
  tokenized # NotCalled =>
    IF tokenized.ok
    THEN /\ Len(tokenized.tokens) >= 1
         /\ \A i \in DOMAIN tokenized.tokens :
              tokenized.tokens[i].type = "EOF" <=> i = Len(tokenized.tokens)
    ELSE tokenized.err.code \in {"LEXICAL_ERROR", "UNTERMINATED_STRING"}

\* whitespace kept as a token between two tokens, then EOF
C6_Witness ==
  /\ tokenized # NotCalled
  /\ tokenized.ok
  /\ Config(options).includeWhitespace
  /\ Len(tokenized.tokens) = 4
  /\ tokenized.tokens[2].type = "WHITESPACE"
  /\ tokenized.tokens[4].type = "EOF"

\* the nodes of an AST
RECURSIVE Nodes(_)
Nodes(node) ==
  {node} \cup UNION {Nodes(Children(node)[i]) : i \in DOMAIN Children(node)}

Bare(node) == node.orderBy = NullNode /\ node.limit = NullNode

\* C7: in a parsed UNION chain no operand of a Union node, be it a
\* SelectStatement or a nested Union, carries an orderBy or a limit; a
\* trailing ORDER BY or LIMIT is on the outermost node.
C7_OperandsBare ==
  parsed # NotCalled /\ parsed.success =>
    /\ \A u \in Nodes(parsed.ast) :
         u.type = "UnionStatement" => Bare(u.left) /\ Bare(u.right)
    /\ \A c \in Chains(MaxUnionOperands), pre \in {<<>>, WithPrefix} :
         /\ sql = Text(pre \o c \o <<"ORDER", "BY", "a", "LIMIT", "5">>)
              => parsed.ast.orderBy # NullNode /\ parsed.ast.limit # NullNode
         /\ sql = Text(pre \o c \o <<"ORDER", "BY", "a">>)
              => parsed.ast.orderBy # NullNode /\ parsed.ast.limit = NullNode
         /\ sql = Text(pre \o c \o <<"LIMIT", "5">>)
              => parsed.ast.orderBy = NullNode /\ parsed.ast.limit # NullNode

\* the longest chain under a WITH, with ORDER BY and LIMIT after it
C7_Witness ==
  /\ parsed # NotCalled
  /\ parsed.success
  /\ "with" \in DOMAIN parsed.ast
  /\ parsed.ast.type = "UnionStatement"
  /\ parsed.ast.right.type = "UnionStatement"
  /\ parsed.ast.orderBy # NullNode
  /\ parsed.ast.limit # NullNode

\* the leaf predicates of a WHERE tree, left to right
RECURSIVE LeafPredicates(_)
LeafPredicates(node) ==
  IF node = NullNode THEN <<>>
  ELSE IF node.type = "BinaryExpression" /\ node.operator \in {"AND", "OR"}
  THEN LeafPredicates(node.left) \o LeafPredicates(node.right)
  ELSE IF node.type = "UnaryExpression" /\ node.operator = "NOT"
  THEN LeafPredicates(node.operand)
  ELSE <<node>>

\* C8: the analyzer reports one condition per leaf predicate of the WHERE
\* tree, in source order, each with the type of its operator; IS NULL and
\* IS NOT NULL tests are reported too, with type other.
C8_ConditionPerLeaf ==
  analyzed # NotCalled /\ analyzed.success
    /\ analyzed.query.type = "SelectStatement" =>
    LET leaves == LeafPredicates(analyzed.ast.ast.where)
        conditions == analyzed.analysis.conditions
    IN /\ Len(conditions) = Len(leaves)
       /\ \A i \in DOMAIN conditions :
            /\ conditions[i].operator = leaves[i].operator
            /\ conditions[i].type = getConditionType(leaves[i].operator)
            /\ leaves[i].operator \in {"IS", "IS NOT"}
                 => conditions[i].type = "other"

\* IS NOT NULL, BETWEEN and LIKE joined by AND: two conditions reported
C8_Witness ==
  /\ analyzed # NotCalled
  /\ analyzed.success
  /\ "where" \in DOMAIN analyzed.ast.ast
  /\ Len(LeafPredicates(analyzed.ast.ast.where)) = 3
  /\ LeafPredicates(analyzed.ast.ast.where)[1].operator = "IS NOT"
  /\ Len(analyzed.analysis.conditions) = 2
  /\ analyzed.analysis.conditions[1].type = "range"
  /\ analyzed.analysis.conditions[2].type = "pattern"

\* a parsed SELECT without aggregate field, join, GROUP BY and ORDER BY
\* and with exactly one table
PlainSelect ==
  /\ analyzed # NotCalled
  /\ analyzed.success
  /\ analyzed.query.type = "SelectStatement"
  /\ AggregateFields(analyzed.analysis.fields) = <<>>
  /\ analyzed.analysis.joins = <<>>
  /\ Len(analyzed.analysis.tables) = 1
  /\ analyzed.analysis.groupBy = <<>>
  /\ analyzed.analysis.orderBy = <<>>

C11_NonSelectTables ==
  analyzed # NotCalled /\ analyzed.success
    /\ analyzed.query.type \in {"InsertStatement", "UpdateStatement",
                                "DeleteStatement"} =>
    /\ analyzed.analysis.conditions = <<>>
    /\ analyzed.analysis.fields = <<>>
    /\ analyzed.analysis.joins = <<>>
    /\ analyzed.analysis.orderBy = <<>>
    /\ analyzed.analysis.groupBy = <<>>
    /\ analyzed.analysis.tables # <<>>
    /\ Range(analyzed.analysis.tables) = Range(analyzed.ast.tables)

\* an UPDATE of users whose analysis names no table
C11_Witness ==
  /\ analyzed # NotCalled
  /\ analyzed.success
  /\ analyzed.query.type = "UpdateStatement"
  /\ analyzed.ast.tables = <<"users">>
  /\ analyzed.analysis.tables = <<>>

\* the nodes of an AST in traversal order, each as often as it occurs
RECURSIVE Flatten(_, _)
Flatten(nodes, i) ==
  IF i > Len(nodes) THEN <<>>
  ELSE <<nodes[i]>> \o Flatten(Children(nodes[i]), 1) \o Flatten(nodes, i + 1)

TableReferences(ast) ==
  SelectSeq(Flatten(<<ast>>, 1), LAMBDA n : n.type = "TableReference")

\* the values of the identifier tokens of s
IdentifierValues(s) ==
  Let(tokenize(s, DefaultOptions), LAMBDA lexed :
    IF ~lexed.ok THEN {}
    ELSE {Str(lexed.tokens[i].value) :
            i \in {j \in DOMAIN lexed.tokens :
                     lexed.tokens[j].type = "IDENTIFIER"}})

\* C12: on success parseSQL(s).tables has exactly one entry per
\* TableReference node of the AST, in order, each the value of an identifier
\* token of s; extractTables(s) returns exactly the names that occur in
\* parseSQL(s).tables; both are empty when parsing fails.
C12_TablesPerReference ==
  /\ parsed # NotCalled =>
        IF parsed.success
        THEN LET refs == TableReferences(parsed.ast) IN
             /\ Len(parsed.tables) = Len(refs)
             /\ \A i \in DOMAIN refs : parsed.tables[i] = refs[i].name
             /\ Range(parsed.tables) \subseteq IdentifierValues(sql)
        ELSE parsed.tables = <<>>
  /\ parsed # NotCalled /\ extractedTables # NotCalled =>
        /\ Range(extractedTables.names) = Range(parsed.tables)
        /\ ~parsed.success => extractedTables.names = <<>>

\* a table written as an empty quoted identifier: the AST has the
\* TableReference, the list of tables has no entry for it
C12_Witness ==
  /\ parsed # NotCalled
  /\ extractedTables # NotCalled
  /\ parsed.success
  /\ Len(TableReferences(parsed.ast)) = 2
  /\ parsed.tables = <<"t">>
  /\ extractedTables.names = <<"t">>

\* C12 for tables with a non-empty name: one entry per TableReference
\* node, duplicates kept, and extractTables returns the same names once
C12_NamedTables ==
  /\ parsed # NotCalled /\ parsed.success =>
        LET refs == SelectSeq(TableReferences(parsed.ast),
                              LAMBDA n : n.name # "") IN
        /\ Len(parsed.tables) = Len(refs)
        /\ \A i \in DOMAIN refs : parsed.tables[i] = refs[i].name
        /\ Range(parsed.tables) \subseteq IdentifierValues(sql)
  /\ parsed # NotCalled /\ ~parsed.success => parsed.tables = <<>>
  /\ parsed # NotCalled /\ extractedTables # NotCalled =>
        /\ Range(extractedTables.names) = Range(parsed.tables)
        /\ ~parsed.success => extractedTables.names = <<>>

\* a self-join lists the table twice
C12_SelfJoin ==
  /\ parsed # NotCalled
  /\ extractedTables # NotCalled
  /\ parsed.tables = <<"t", "t", "u">>
  /\ extractedTables.names = <<"t", "u">>

\* C13: a WHERE predicate e NOT LIKE p, e NOT IN (...) or e NOT BETWEEN a
\* AND b parses with no token left unconsumed, and analyzeSQL reports one
\* condition for it, of type pattern, list and range respectively.
C13_NegatedPredicates ==
  \A np \in NegatedPredicates :
    analyzed # NotCalled /\ sql = Text(NegatedWhere(np[2])) =>
      /\ analyzed.success
      /\ FirstUnconsumed(sql).type = "EOF"
      /\ Len(analyzed.analysis.conditions) = 1
      /\ analyzed.analysis.conditions[1].type = np[1]

\* d NOT LIKE 'x': the parse stops at NOT, the WHERE tree is the column d
\* alone and no condition is reported
C13_Witness ==
  /\ analyzed # NotCalled
  /\ sql = Text(NegatedWhere(<<"d", "NOT", "LIKE", "'x'">>))
  /\ analyzed.success
  /\ FirstUnconsumed(sql).type = "NOT"
  /\ analyzed.ast.ast.where.type = "ColumnReference"
  /\ analyzed.analysis.conditions = <<>>

\* s has a comment opened by the two characters after offset k and never
\* closed: before it only letters, digits, spaces and newlines, after it no
\* star followed by a slash
OpensUnclosedComment(s, k) ==
  /\ k + 2 <= Len(s)
  /\ s[k + 1] = "/" /\ s[k + 2] = "*"
  /\ \A i \in 1..k : s[i] \in {"a", "1", " ", "\n"}
  /\ \A i \in (k + 3)..(Len(s) - 1) : ~(s[i] = "*" /\ s[i + 1] = "/")

\* C14: when a multi-line comment is opened and never closed, tokenize
\* raises a lexical error at the line and column of the opening, under
\* every option combination, and returns no token list.
C14_UnterminatedComment ==
  \A k \in 0..Len(sql) :
    tokenized # NotCalled /\ OpensUnclosedComment(sql, k) =>
      /\ ~tokenized.ok
      /\ <<tokenized.err.line, tokenized.err.column>> = PositionOf(sql, k)

\* an unclosed comment after a letter, comments kept: the token list is
\* the identifier, a COMMENT token and EOF
C14_Witness ==
  /\ tokenized # NotCalled
  /\ sql = <<"a", "/", "*">>
  /\ Config(options).includeComments
  /\ tokenized.ok
  /\ Len(tokenized.tokens) = 3
  /\ tokenized.tokens[2].type = "COMMENT"
  /\ tokenized.tokens[3].type = "EOF"

\* the index of the quote that opens a string literal left open at the end
\* of s, 0 if there is none: scanning from index i, open is the index of
\* the quote that opened the literal being read, 0 outside a literal.  A
\* backslash inside a literal takes the next character with it; outside
\* a literal it is no token, and nothing after it is read.
RECURSIVE UnclosedQuote(_, _, _)
UnclosedQuote(s, i, open) ==
  IF i > Len(s) THEN open
  ELSE IF open = 0
  THEN IF s[i] = "'" THEN UnclosedQuote(s, i + 1, i)
       ELSE IF s[i] = "\\" THEN 0
       ELSE UnclosedQuote(s, i + 1, 0)
  ELSE IF s[i] = "\\" THEN UnclosedQuote(s, i + 2, open)
       ELSE IF s[i] = "'" THEN UnclosedQuote(s, i + 1, 0)
       ELSE UnclosedQuote(s, i + 1, open)

\* C15: when a single-quoted string literal is opened and not closed before
\* the end of input (an escaped quote does not close it), tokenize raises
\* UNTERMINATED_STRING at the line and column of the opening quote, and
\* parseSQL reports that diagnostic as its single error.
C15_UnterminatedString ==
  LET q == UnclosedQuote(sql, 1, 0) IN
  q > 0 =>
    /\ tokenized # NotCalled =>
          /\ ~tokenized.ok
          /\ tokenized.err.code = "UNTERMINATED_STRING"
          /\ <<tokenized.err.line, tokenized.err.column>>
               = PositionOf(sql, q - 1)
    /\ parsed # NotCalled =>
          /\ ~parsed.success
          /\ Len(parsed.errors) = 1
          /\ parsed.errors[1].code = "UNTERMINATED_STRING"
          /\ <<parsed.errors[1].line, parsed.errors[1].column>>
               = PositionOf(sql, q - 1)

\* a literal opened on the second line whose only other quote is escaped
C15_Witness ==
  /\ sql = <<"\n", "'", "\\", "'">>
  /\ tokenized # NotCalled
  /\ parsed # NotCalled
  /\ ~tokenized.ok
  /\ tokenized.err.line = 2
  /\ tokenized.err.column = 1
  /\ parsed.errors[1].code = "UNTERMINATED_STRING"

\* C16: an input without a significant token (empty, or spaces, tabs,
\* newlines and comments only) fails to parse with kind EMPTY_INPUT at
\* line 1, column 1, under every option combination.
C16_EmptyInput ==
  parsed # NotCalled /\ sql \in BlankInputs =>
    /\ ~parsed.success
    /\ Len(parsed.errors) = 1
    /\ parsed.errors[1].code = "EMPTY_INPUT"
    /\ parsed.errors[1].line = 1
    /\ parsed.errors[1].column = 1

\* a newline and a comment that the lexer keeps as a token: the parser
\* still sees no token before EOF
C16_Witness ==
  /\ sql = <<"\n", "/", "*", " ", "a", " ", "*", "/">>
  /\ Config(options).includeComments
  /\ tokenized # NotCalled
  /\ parsed # NotCalled
  /\ tokenized.ok
  /\ Len(tokenized.tokens) = 3
  /\ tokenized.tokens[2].type = "COMMENT"
  /\ parsed.errors[1].code = "EMPTY_INPUT"

\* C17: every public entry point is total: for every argument, a string
\* or not, it returns its envelope or list and throws nothing to the
\* caller; for an argument that is not a string validateSQL reports a
\* diagnostic and the extractions return the empty list.
C17_EntryPointsTotal ==
  /\ "threw" \notin DOMAIN parsed
  /\ "threw" \notin DOMAIN validated
  /\ "threw" \notin DOMAIN analyzed
  /\ "threw" \notin DOMAIN extractedTables
  /\ "threw" \notin DOMAIN extractedColumns
  /\ argType \in NonStrings =>
        /\ validated # NotCalled =>
              ~validated.valid /\ Len(validated.errors) = 1
        /\ extractedTables # NotCalled => extractedTables.names = <<>>
        /\ extractedColumns # NotCalled => extractedColumns.names = <<>>

\* parseSQL(null) and analyzeSQL(null): an INVALID_INPUT SQLError and a
\* TypeError reach the caller
C17_Witness ==
  /\ argType = "null"
  /\ "threw" \in DOMAIN parsed
  /\ parsed.error.code = "INVALID_INPUT"
  /\ "threw" \in DOMAIN analyzed
  /\ ~analyzed.error.isSQLError
  /\ validated # NotCalled
  /\ validated.errors[1].code = "VALIDATION_ERROR"

\* C18: the pipeline is deterministic and can be run again: a second
\* tokenize() on the same Lexer instance, and tokenize() on a second
\* instance for the same input and options, give the token list or the
\* diagnostic the first call gave, and a second parseSQL on the same string
\* and options gives a result equal to the first.
C18_Rerunnable ==
  /\ retokenized # NotCalled => retokenized = tokenized
  /\ tokenized # NotCalled =>
        tokenizeResult(tokenizeFields(sql, Config(options), NewLexer))
          = tokenized
  /\ reparsed # NotCalled => reparsed = parsed

\* both calls were repeated on a statement that parses, and the lexer was
\* run again on an instance that holds tokens
C18_Witness ==
  /\ retokenized # NotCalled
  /\ retokenized.ok
  /\ Len(retokenized.tokens) > 3
  /\ reparsed # NotCalled
  /\ reparsed.success

\* the second tokenize() ran on an instance whose first run had thrown
C18_WitnessError ==
  /\ retokenized # NotCalled
  /\ ~retokenized.ok
  /\ retokenized.err.code = "UNTERMINATED_STRING"

\* (line, column) pair p is not after pair q
NotAfter(p, q) == p[1] < q[1] \/ (p[1] = q[1] /\ p[2] <= q[2])

\* C19: for every input that tokenizes, the tokens are in source order:
\* along the list the start offsets and the (line, column) pairs never
\* decrease, and each token's line and column are those of its start
\* offset (line = 1 + newlines before it, column = 1 + characters since
\* the last newline).
C19_SourceOrder ==
  (tokenized # NotCalled /\ tokenized.ok) =>
    \A i \in DOMAIN tokenized.tokens :
      LET t == tokenized.tokens[i] IN
        /\ <<t.line, t.column>> = PositionOf(sql, t.start)
        /\ i > 1 =>
              LET before == tokenized.tokens[i - 1] IN
                /\ before.start <= t.start
                /\ NotAfter(<<before.line, before.column>>,
                            <<t.line, t.column>>)

\* tokens on two lines, the later one not in the first column
C19_Witness ==
  /\ tokenized # NotCalled
  /\ tokenized.ok
  /\ \E i, j \in DOMAIN tokenized.tokens :
        /\ i < j
        /\ tokenized.tokens[i].type # "EOF"
        /\ tokenized.tokens[j].type # "EOF"
        /\ tokenized.tokens[i].line < tokenized.tokens[j].line
        /\ tokenized.tokens[j].column > 1

\* the loop of tokenize() is about to run one more iteration
ScanRunning ==
  /\ lexer # NotCalled
  /\ tokenized = NotCalled
  /\ lexer.err = NullNode
  /\ lexer.L.position < Len(sql)

\* C20: tokenizing and parsing terminate: each iteration of the lexer's
\* scan loop throws or strictly increases the position, which never
\* exceeds the input length, and each parser rule that returns has
\* consumed at least one token and stands within the token list.
C20_Progress ==
  /\ lexer # NotCalled => lexer.L.position <= Len(sql)
  /\ ScanRunning =>
        LET T == ScanStep(sql, Config(options), lexer) IN
          T.err # NullNode \/ T.L.position > lexer.L.position
  /\ (descent # NotCalled /\ descent.ok) =>
        /\ descent.from < descent.to
        /\ descent.to <= Len(ParserTokens(tokenized.tokens))

\* a statement rule has consumed a whole statement after the loop of
\* tokenize() ran over more than twenty characters
C20_Witness ==
  /\ Len(sql) > 20
  /\ descent # NotCalled
  /\ descent.ok
  /\ descent.rule = "parseStatement"
  /\ descent.from = 0
  /\ descent.to > 10

\* the loop of tokenize() taken one iteration at a time ends with what
\* tokenize() gives
C20_StepsAgree ==
  tokenized # NotCalled => tokenized = tokenize(sql, Config(options))
\* C21: for every SELECT with joins the analyzer's joins list has one
\* entry per JOIN, in source order, and the kind reported by each entry is
\* the SQL join kind of that JOIN (INNER when only JOIN is written, LEFT,
\* LEFT OUTER, RIGHT, RIGHT OUTER, FULL, FULL OUTER or CROSS).
C21_JoinKinds ==
  \A picks \in JoinPicks :
    (sql = Text(JoinedSelect(picks)) /\ analyzed # NotCalled) =>
      /\ analyzed.success
      /\ Len(analyzed.analysis.joins) = Len(picks)
      /\ \A i \in DOMAIN picks :
           /\ analyzed.analysis.joins[i].table = Nth(TableNames, i + 1)
           /\ analyzed.analysis.joins[i].type = JoinKinds[picks[i]][1]

\* LEFT OUTER JOIN and CROSS JOIN analyzed: the parser kept both kinds,
\* the analyzer reports the node type for both
C21_Witness ==
  /\ analyzed # NotCalled
  /\ analyzed.success
  /\ Len(analyzed.analysis.joins) = 2
  /\ analyzed.ast.ast.from.joins[1].joinType = "LEFT OUTER"
  /\ analyzed.ast.ast.from.joins[2].joinType = "CROSS"
  /\ analyzed.analysis.joins[1].type = "JoinClause"
  /\ analyzed.analysis.joins[2].type = "JoinClause"

\* the joins list has one entry per JOIN, in source order, with the table
\* of each
C21_JoinsListed ==
  \A picks \in JoinPicks :
    (sql = Text(JoinedSelect(picks)) /\ analyzed # NotCalled) =>
      /\ analyzed.success
      /\ Len(analyzed.analysis.joins) = Len(picks)
      /\ \A i \in DOMAIN picks :
           analyzed.analysis.joins[i].table = Nth(TableNames, i + 1)
\* the precedence level of an operator: OR lowest, unary prefix 7, a
\* primary expression 8
OperatorLevel(operator) ==
  CASE operator = "OR" -> 1
    [] operator = "AND" -> 2
    [] operator \in {"=", "!=", "<>"} -> 3
    [] operator \in {"<", ">", "<=", ">=", "LIKE", "ILIKE", "IN", "BETWEEN",
                     "IS", "IS NOT"} -> 4
    [] operator \in {"+", "-"} -> 5
    [] operator \in {"*", "/", "%", "||"} -> 6
NodeLevel(node) ==
  IF node.type = "BinaryExpression" THEN OperatorLevel(node.operator)
  ELSE IF node.type = "UnaryExpression" THEN 7
  ELSE 8

\* every operator of the tree has operands of its own level or higher on
\* the left and of a higher level on the right; a unary prefix has a unary
\* or primary operand
RECURSIVE GroupedByPrecedence(_)
GroupedByPrecedence(node) ==
  CASE node.type = "BinaryExpression" ->
         /\ NodeLevel(node.left) >= NodeLevel(node)
         /\ GroupedByPrecedence(node.left)
         /\ IF node.right.type = "BetweenRange"
            THEN /\ NodeLevel(node.right.start) > NodeLevel(node)
                 /\ NodeLevel(node.right.end) > NodeLevel(node)
                 /\ GroupedByPrecedence(node.right.start)
                 /\ GroupedByPrecedence(node.right.end)
            ELSE /\ NodeLevel(node.right) > NodeLevel(node)
                 /\ GroupedByPrecedence(node.right)
    [] node.type = "UnaryExpression" ->
         /\ NodeLevel(node.operand) >= 7
         /\ GroupedByPrecedence(node.operand)
    [] OTHER -> TRUE

\* the expression written out again, operands and operators in the order
\* of the tree
RECURSIVE Written(_)
Written(node) ==
  CASE node.type = "BinaryExpression" ->
         Written(node.left) \o " " \o node.operator \o " "
           \o Written(node.right)
    [] node.type = "BetweenRange" ->
         Written(node.start) \o " AND " \o Written(node.end)
    [] node.type = "UnaryExpression" ->
         node.operator \o " " \o Written(node.operand)
    [] node.type = "ColumnReference" -> node.name
    [] node.type = "Literal" ->
         IF node.value = JSNull THEN "NULL"
         ELSE Nth(<<"1", "2", "3">>, node.value.v)
    [] OTHER -> "?"

\* the text of the input after WHERE
AfterWhere(s) == Str(SubSeq(s, Len(Text(WhereSelect(<<>>))) + 2, Len(s)))

C22_WitnessLevels ==
  /\ parsed # NotCalled
  /\ parsed.success
  /\ AfterWhere(sql) = "a OR b AND c = d"
  /\ parsed.ast.where.operator = "OR"
  /\ parsed.ast.where.right.operator = "AND"
  /\ parsed.ast.where.right.right.operator = "="
\* left op ANY|ALL (SELECT ...) parsed to Binary(left, "op quantifier",
\* SubQuery)
QuantifiedComparison(result, operator, quantifier) ==
  /\ result.success
  /\ result.ast.where.type = "BinaryExpression"
  /\ result.ast.where.left = AST_column("a", null)
  /\ result.ast.where.operator = operator \o " " \o quantifier
  /\ result.ast.where.right.type = "SubQuery"
  /\ result.ast.where.right.query.type = "SelectStatement"

\* C23: ANY or ALL is accepted exactly when it follows a comparison
\* operator (=, !=, <>, <, >, <=, >=) and a parenthesised sub-query follows
\* it: then left op ANY|ALL (SELECT ...) parses to Binary(left, "op
\* quantifier", SubQuery); after another operator, or without ( SELECT, it
\* is rejected.
C23_Quantifiers ==
  \A c \in QuantifierCases :
    (sql = Text(QuantifiedWhere(c[1], c[2], c[3])) /\ parsed # NotCalled) =>
      IF c[1] \in ComparisonOperators /\ c[3] = SubQueryOperand
      THEN QuantifiedComparison(parsed, c[1], c[2])
      ELSE ~parsed.success

\* a = ANY (SELECT b FROM u) is rejected while a < ANY (SELECT b FROM u)
\* would be accepted: the first
C23_Witness ==
  /\ sql = Text(QuantifiedWhere("=", "ANY", SubQueryOperand))
  /\ parsed # NotCalled
  /\ ~parsed.success
  /\ parsed.errors[1].code = "UNEXPECTED_TOKEN"

\* what the parser does: the quantifier is accepted after <, >, <=, >=,
\* LIKE and ILIKE, and rejected after =, != and <>
C23_RelationalOnly ==
  \A c \in QuantifierCases :
    (sql = Text(QuantifiedWhere(c[1], c[2], c[3])) /\ parsed # NotCalled) =>
      IF c[1] \in {"<", ">", "<=", ">=", "LIKE"} /\ c[3] = SubQueryOperand
      THEN QuantifiedComparison(parsed, c[1], c[2])
      ELSE ~parsed.success
\* the node of the table reference of ReferenceStatement(position, ...)
\* and what the statement has after it
ReferenceNode(ast, position) ==
  CASE position = "FROM" -> ast.from.tables[1]
    [] position = "JOIN" -> ast.from.joins[1].table
    [] position \in {"INSERT INTO", "UPDATE"} -> ast.table
    [] position = "DELETE FROM" -> ast.from
RestParsed(ast, position) ==
  CASE position \in {"FROM", "DELETE FROM"} -> ast.where # NullNode
    [] position = "JOIN" -> ast.from.joins[1].condition # NullNode
    [] position = "INSERT INTO" -> Len(ast.values) = 1
    [] position = "UPDATE" -> Len(ast.set) = 1
StatementType(position) ==
  CASE position \in {"FROM", "JOIN"} -> "SelectStatement"
    [] position = "INSERT INTO" -> "InsertStatement"
    [] position = "UPDATE" -> "UpdateStatement"
    [] position = "DELETE FROM" -> "DeleteStatement"

\* the statement parsed whole, with one TableReference of the given name,
\* schema and alias in the position
ReferenceParsed(result, position, name, schema, alias) ==
  /\ result.success
  /\ result.ast.type = StatementType(position)
  /\ ReferenceNode(result.ast, position)
       = [type |-> "TableReference", name |-> name, alias |-> alias,
          schema |-> schema]
  /\ RestParsed(result.ast, position)

AliasOf(words) == IF words = <<>> THEN null ELSE words[Len(words)]

\* C24: a table reference written schema.table, with AS alias, a bare
\* alias or none, parses to one TableReference whose name is the second
\* identifier and whose schema is the first, with all its tokens consumed,
\* in FROM, JOIN, INSERT INTO, UPDATE and DELETE FROM.
C24_SchemaTable ==
  \A c \in ReferenceCases :
    (sql = Text(ReferenceStatement(c[1], c[2] \o c[3]))
       /\ parsed # NotCalled /\ c[2] # <<"t">>) =>
      ReferenceParsed(parsed, c[1], "t", "s", AliasOf(c[3]))

\* FROM s.t AS x in strict mode: the statement is rejected at the dot
C24_Witness ==
  /\ sql = Text(ReferenceStatement("FROM", <<"s.t", "AS", "x">>))
  /\ options = [strict |-> TRUE]
  /\ parsed # NotCalled
  /\ ~parsed.success
  /\ parsed.errors[1].column = 16

\* a table reference without schema parses as described, in each position
C24_PlainTable ==
  \A c \in ReferenceCases :
    (sql = Text(ReferenceStatement(c[1], c[2] \o c[3]))
       /\ parsed # NotCalled /\ c[2] = <<"t">>) =>
      ReferenceParsed(parsed, c[1], "t", null, AliasOf(c[3]))

\* with a schema written, no statement has a TableReference with a schema
C24_NoSchema ==
  \A c \in ReferenceCases :
    (sql = Text(ReferenceStatement(c[1], c[2] \o c[3]))
       /\ parsed # NotCalled /\ c[2] # <<"t">> /\ parsed.success) =>
      ReferenceNode(parsed.ast, c[1]).schema = null
\* the statement of the case was parsed
CaseParsed(c) ==
  /\ sql = Text(CaseSelect(CaseWords(c[1], c[2], c[3], c[4])))
  /\ parsed # NotCalled

\* C25: every Case node has at least one WHEN clause: a CASE that reaches
\* ELSE or END without a WHEN is rejected with a diagnostic; ELSE is
\* optional and END is required.
C25_CaseHasWhen ==
  \A c \in CaseCases :
    CaseParsed(c) =>
      IF c[2] >= 1 /\ c[4] = <<"END">>
      THEN /\ parsed.success
           /\ parsed.ast.columns[1].type = "CaseExpression"
           /\ Len(parsed.ast.columns[1].whenClauses) = c[2]
           /\ (parsed.ast.columns[1].elseClause = NullNode) <=> (c[3] = <<>>)
      ELSE /\ ~parsed.success
           /\ Len(parsed.errors) >= 1

\* CASE x END is accepted as a Case node without any WHEN clause
C25_Witness ==
  /\ CaseParsed(<<<<"x">>, 0, <<>>, <<"END">>>>)
  /\ parsed.success
  /\ parsed.ast.columns[1].type = "CaseExpression"
  /\ parsed.ast.columns[1].whenClauses = <<>>

\* a CASE is rejected when END is missing or when no operand and no WHEN
\* follows CASE, and is accepted with as many WHEN clauses as written
\* otherwise
C25_CaseAccepted ==
  \A c \in CaseCases :
    CaseParsed(c) =>
      IF c[4] = <<"END">> /\ (c[2] >= 1 \/ c[1] # <<>>)
      THEN /\ parsed.success
           /\ parsed.ast.columns[1].type = "CaseExpression"
           /\ Len(parsed.ast.columns[1].whenClauses) = c[2]
           /\ (parsed.ast.columns[1].elseClause = NullNode) <=> (c[3] = <<>>)
      ELSE /\ ~parsed.success
           /\ Len(parsed.errors) >= 1
\* the name the analysis reports in a place of NamesSelect
Reported(analysis, place) ==
  CASE place = "joinLeft" -> analysis.joins[1].condition.left
    [] place = "joinRight" -> analysis.joins[1].condition.right
    [] place = "field" -> analysis.conditions[1].field
    [] place = "value" -> analysis.conditions[1].value.v
    [] place = "groupBy" -> analysis.groupBy[1]
    [] place = "orderBy" -> analysis.orderBy[1].field
NamesAnalyzed(q) ==
  /\ sql = Text(NamesSelect(q))
  /\ analyzed # NotCalled
  /\ analyzed.success

\* C26: the analysis renders a column reference with a table as table.name
\* and one without as its bare name, as condition field, as condition
\* value, on both sides of a join condition, as orderBy field and as
\* groupBy entry.
C26_QualifiedNames ==
  \A q \in SUBSET NamePlaces :
    NamesAnalyzed(q) =>
      \A place \in NamePlaces :
        Reported(analyzed.analysis, place) = NameText(place, q)

\* WHERE t.c = u.d is reported with field c and value u.d
C26_Witness ==
  /\ NamesAnalyzed({"field", "value"})
  /\ analyzed.analysis.conditions[1].field = "c"
  /\ analyzed.analysis.conditions[1].value = JSString("u.d")

\* only the condition value keeps the table: every other place reports the
\* bare name
C26_BareNames ==
  \A q \in SUBSET NamePlaces :
    NamesAnalyzed(q) =>
      \A place \in NamePlaces :
        Reported(analyzed.analysis, place) =
          IF place = "value" THEN NameText(place, q) ELSE PlaceName[place]

\* every statement of NamesInputs is analyzed
C26_AllAnalyzed == analyzed # NotCalled => analyzed.success
\* the frame of the window function of FrameSelect
FrameOf(ast) == ast.columns[1].over.frame
FrameParsed(c) ==
  /\ sql = Text(FrameSelect(c[1], c[2]))
  /\ parsed # NotCalled
Directed(bound) ==
  bound[1] = "CURRENT_ROW" \/ bound[2] \in {<<"PRECEDING">>, <<"FOLLOWING">>}
\* the bound node has the kind and the direction that were written
BoundAsWritten(node, bound) ==
  /\ node.type = bound[1]
  /\ bound[1] # "CURRENT_ROW" => node.direction = bound[2][1]

\* C27: an UNBOUNDED, offset or INTERVAL bound must be followed by
\* PRECEDING or FOLLOWING, and that keyword is the direction recorded;
\* anything else in its place is rejected with a diagnostic and is never
\* consumed as a direction.
C27_FrameDirection ==
  \A c \in FrameCases :
    FrameParsed(c) =>
      IF \A i \in DOMAIN c[2] : Directed(c[2][i])
      THEN /\ parsed.success
           /\ FrameOf(parsed.ast).type = c[1]
           /\ BoundAsWritten(FrameOf(parsed.ast).start, c[2][1])
           /\ IF Len(c[2]) = 2
              THEN BoundAsWritten(FrameOf(parsed.ast).end, c[2][2])
              ELSE FrameOf(parsed.ast).end = NullNode
           /\ parsed.ast.from.tables[1].name = "t"
      ELSE /\ ~parsed.success
           /\ Len(parsed.errors) >= 1
\* ROWS 1 x is accepted in strict mode: x is consumed in the place of the
\* direction and PRECEDING is recorded
C27_Witness ==
  /\ FrameParsed(<<"ROWS", <<<<"OFFSET", <<"x">>>>>>>>)
  /\ options = [strict |-> TRUE]
  /\ parsed.success
  /\ FrameOf(parsed.ast).start = 
       [type |-> "OFFSET", value |-> AST_literal(JSNumber(1, ""), "number"),
        direction |-> "PRECEDING"]

\* a frame whose bounds are all followed by PRECEDING or FOLLOWING (or are
\* CURRENT ROW) is accepted with the directions that were written
C27_DirectedFrames ==
  \A c \in FrameCases :
    (FrameParsed(c) /\ \A i \in DOMAIN c[2] : Directed(c[2][i])) =>
      /\ parsed.success
      /\ FrameOf(parsed.ast).type = c[1]
      /\ BoundAsWritten(FrameOf(parsed.ast).start, c[2][1])
      /\ IF Len(c[2]) = 2
         THEN BoundAsWritten(FrameOf(parsed.ast).end, c[2][2])
         ELSE FrameOf(parsed.ast).end = NullNode
      /\ parsed.ast.from.tables[1].name = "t"

\* a bound followed by another word is accepted, and its direction is
\* PRECEDING
C27_OtherWordConsumed ==
  \A c \in FrameCases :
    (FrameParsed(c) /\ \A i \in DOMAIN c[2] :
                         Directed(c[2][i]) \/ c[2][i][2] = <<"x">>) =>
      /\ parsed.success
      /\ \A i \in DOMAIN c[2] :
           c[2][i][2] = <<"x">> =>
             (IF i = 1 THEN FrameOf(parsed.ast).start
              ELSE FrameOf(parsed.ast).end).direction = "PRECEDING"
IntervalParsed(c) ==
  /\ sql = Text(IntervalSelect(IntervalWords(c[1], c[2], c[3])))
  /\ parsed # NotCalled
\* the node of a value of IntervalValues
ValueNode(value) ==
  CASE value = "1" -> AST_literal(JSNumber(1, ""), "number")
    [] value = "'1'" -> AST_literal(JSString("1"), "string")
    [] value = "x" -> AST_column("x", null)
UnitOf(unit) == IF unit = <<>> THEN "DAY" ELSE Str(ToUpperCase(Word(unit[1])))
\* the expression with the Interval as the left operand of the operator
IntervalAsOperand(c) ==
  LET interval == AST_interval(ValueNode(c[1]), UnitOf(c[2]))
  IN IF c[3] = <<>> THEN interval
     ELSE AST_binary(interval, c[3][1], AST_column("b", null))

\* C28: the value of an Interval is one primary expression and a binary
\* operator after it applies to the Interval as a whole; the unit is the
\* token after the value when it is YEAR, MONTH, DAY, HOUR, MINUTE or
\* SECOND in any case, and DAY with no token consumed otherwise.
C28_IntervalValue ==
  \A c \in IntervalCases :
    IntervalParsed(c) =>
      /\ parsed.success
      /\ parsed.ast.columns[1] = IntervalAsOperand(c)
      /\ parsed.ast.from.tables[1].name = "t"
\* INTERVAL 1 + b is one Interval whose value is 1 + b
C28_Witness ==
  /\ IntervalParsed(<<"1", <<>>, <<"+", "b">>>>)
  /\ parsed.success
  /\ parsed.ast.columns[1] =
       AST_interval(AST_binary(ValueNode("1"), "+", AST_column("b", null)),
                    "DAY")

\* the value is a whole expression: an operator directly after the value
\* belongs to the value, an operator after the unit applies to the Interval
C28_ValueIsExpression ==
  \A c \in IntervalCases :
    IntervalParsed(c) =>
      /\ parsed.success
      /\ parsed.ast.columns[1] =
           IF c[2] = <<>> /\ c[3] # <<>>
           THEN AST_interval(AST_binary(ValueNode(c[1]), c[3][1],
                                        AST_column("b", null)), "DAY")
           ELSE IntervalAsOperand(c)
      /\ parsed.ast.from.tables[1].name = "t"
\* parseTableReference called at token p backtracks: the token is a left
\* parenthesis and the token after it is not SELECT
RewindAt(ts, p) ==
  Match(ts, p, "LEFT_PAREN") /\ ~Match(ts, Adv(ts, p), "SELECT")
FirstParen(s) ==
  CHOOSE i \in DOMAIN s : s[i] = "(" /\ \A j \in 1..(i - 1) : s[j] # "("
CursorParsed(c) ==
  /\ sql = Text(ReferenceStatement(c[1], c[2]))
  /\ parsed # NotCalled

\* C29: the token cursor stays within 0..tokens.length and never moves
\* backward, except that in a table reference a left parenthesis not
\* followed by SELECT rewinds it by one token; a parse that rewinds fails
\* with UNEXPECTED_TOKEN positioned at that parenthesis, with no further
\* token consumed.
C29_Cursor ==
  /\ (tokenized # NotCalled /\ tokenized.ok) =>
        LET ts == ParserTokens(tokenized.tokens) IN
          \A p \in 0..Len(ts) : Adv(ts, p) \in p..Len(ts)
  /\ (descent # NotCalled /\ descent.ok) =>
        /\ descent.from <= descent.to
        /\ descent.to <= Len(ParserTokens(tokenized.tokens))
  /\ (descent # NotCalled /\ descent.rule = "parseTableReference"
        /\ RewindAt(ParserTokens(tokenized.tokens), descent.from)) =>
        /\ ~descent.ok
        /\ descent.err.code = "UNEXPECTED_TOKEN"
        /\ descent.err.line =
             ParserTokens(tokenized.tokens)[descent.from + 1].line
        /\ descent.err.column =
             ParserTokens(tokenized.tokens)[descent.from + 1].column
  /\ \A c \in TablePositions \X ParenthesizedReferences :
        CursorParsed(c) =>
          /\ ~parsed.success
          /\ Len(parsed.errors) = 1
          /\ parsed.errors[1].code = "UNEXPECTED_TOKEN"
          /\ parsed.errors[1].line = 1
          /\ parsed.errors[1].column = FirstParen(sql)

\* FROM ( t ) is rejected at the parenthesis, by the whole parse and by
\* parseTableReference called at the parenthesis
C29_Witness ==
  /\ CursorParsed(<<"FROM", <<"(", "t", ")">>>>)
  /\ ~parsed.success
  /\ parsed.errors[1].code = "UNEXPECTED_TOKEN"
  /\ parsed.errors[1].column = 15
  /\ descent # NotCalled
  /\ descent.rule = "parseTableReference"
  /\ descent.from = 3
  /\ ~descent.ok
  /\ descent.err.column = 15

\* a parenthesis followed by SELECT is a subquery: no rewind, and the
\* statement parses
C29_SubQueryParses ==
  /\ CursorParsed(<<"FROM", <<"(", "SELECT", "a", "FROM", "u", ")", "x">>>>)
  /\ parsed.success
  /\ parsed.ast.from.tables[1].type = "SubQuery"
  /\ descent # NotCalled
  /\ descent.rule = "parseTableReference"
  /\ descent.from = 3
  /\ descent.ok
  /\ descent.to = 10
ExtraTokenTypes == {"WHITESPACE", "NEWLINE", "COMMENT"}
WithoutExtras(tokens) ==
  SelectSeq(tokens, LAMBDA t : t.type \notin ExtraTokenTypes)
\* what the lexer and the parser give for the same input when
\* includeWhitespace and includeComments are left at their defaults
DefaultTokens == tokenize(sql, Config(<<>>))
DefaultParse == parseSQL(sql, [strict |-> options.strict])

====
